---- MODULE Spec2Model ----
(***************************************************************************)
(* Verification model of the vision-guidance stack (vision_stack/src).     *)
(*                                                                         *)
(* Units.  Time is in integer milliseconds (time.time() read once per     *)
(* call).  Angles are in centi-degrees, thrust in hundredths; the float   *)
(* arithmetic of the filters is modelled in this fixed point (the EMA      *)
(* product is rounded down to a centi-degree; slew steps are exact for    *)
(* time steps that are multiples of 10 ms).  An Optional[float] is the     *)
(* record [some, v].                                                       *)
(***************************************************************************)
EXTENDS Integers, Sequences, FiniteSets, TLC

\* ---------------------------------------------------------------- bounds
\* Number of SafetyManager calls explored from construction.
MaxCalls == 3
\* Number of FailsafeManager calls explored from construction.
MaxFsCalls == 5
\* Number of LockManager calls explored from construction.
MaxLockCalls == 3
\* Number of iterations of the bridge main loop explored.
MaxLoops == 3
MaxShutdownLoops == 1
MaxTicks == 3
\* Number of iterations of the targeting main loop explored.
MaxTgLoops == 4
MaxCommands == 3
MaxTmCalls == 7
MaxDepthSets == 2
MaxCtCalls == 4
MaxOsCalls == 4
\* Sends after the run flag was cleared are counted up to this number.
MaxSendsCounted == 2

\* ------------------------------------------------------- program constants
\* SafetyConfig (control/safety_manager.py)
roll_ema_alpha_tenths == 3
pitch_ema_alpha_tenths == 3
roll_slew_rate_deg_s == 30
pitch_slew_rate_deg_s == 20
roll_limit_deg == 20
pitch_limit_deg == 10
track_timeout_ms == 500
telemetry_timeout_ms == 1000
heartbeat_timeout_ms == 3000
\* CustomTelemetrySender (mavlink/custom_telemetry.py)
tracks_send_interval_ms == 200
\* ErrorConfig (targeting/errors.py), 0.1 m
desired_range_m == 100
min_range_m == 30
max_range_m == 500
\* CameraIntrinsics (targeting/targeting_node.py), pixels
intrinsics_fx == 1000
intrinsics_fy == 1000
intrinsics_cx == 960
intrinsics_cy == 540
\* FailsafeConfig (mavlink/failsafe.py)
track_lost_warning_ms == 250
track_lost_failsafe_ms == 500
telemetry_lost_warning_ms == 500
telemetry_lost_failsafe_ms == 1000
recovery_confirmation_ms == 500
\* LockConfig (targeting/lock_manager.py)
lock_timeout_ms == 500
reacquire_timeout_ms == 2000
max_pixel_distance == 100

\* ControlGains, ControlLimits, ControlConfig (control/control_mapper.py).
\* yaw_error is in 1/300 rad, pitch_error in 1/200 rad, range_error in 0.1 m;
\* the limits are in degrees and in hundredths of full thrust.
yaw_to_roll == 30
pitch_to_pitch == 20
range_to_thrust == 5
roll_min_deg == -20
roll_max_deg == 20
pitch_min_deg == -10
pitch_max_deg == 10
thrust_min == 0
thrust_max == 100
yaw_deadband_rad == 6
pitch_deadband_rad == 4
range_deadband_m == 5

\* ----------------------------------------------------------------- helpers
None == [some |-> FALSE, v |-> 0]
Some(x) == [some |-> TRUE, v |-> x]
Abs(x) == IF x < 0 THEN -x ELSE x
Deg(d) == d * 100

VARIABLES
    now,                  \* wall clock, ms
    \* SafetyManager
    roll_ema, pitch_ema,  \* EMAFilter._value
    roll_slew, pitch_slew,\* SlewRateLimiter [last_value, last_time]
    last_valid_time, last_telemetry_time,
    failsafe_active, bench_mode,
    sm_calls,             \* number of SafetyManager calls made so far
    sm_op,                \* last SafetyManager operation and its path
    sm_arg,               \* arguments of the last apply
    sm_ret,               \* setpoint returned by the last apply / force_neutral
    sm_hist,              \* the last two apply outputs <<previous, latest>>, with their times
    \* FailsafeManager
    fs_state, failsafe_entry_time, recovery_start_time,
    last_track_valid_time, fs_last_telemetry_time,
    fs_calls,             \* number of FailsafeManager calls made so far
    fs_op,                \* last FailsafeManager operation
    fs_pre,               \* _state and _recovery_start_time before the last update
    fs_target,            \* target state evaluated by the last update
    fs_nominal_since,     \* start of the current run of updates whose target is NOMINAL
    \* LockManager
    locked_track_id, lock_timestamp, last_seen_timestamp, lock_bbox,
    status, frames_locked,
    lk_calls,             \* number of LockManager calls made so far
    lk_op,                \* last LockManager operation
    lk_arg,               \* track_id / pixel and track list passed to it
    lk_ok,                \* boolean returned by the last selection
    lk_ret,               \* LockState returned by the last update / get_lock_state
    lk_pre,               \* LockManager fields before the last operation
    \* MavlinkBridge
    br_pc,                \* position of the main loop (_run_loop)
    tracking_active,      \* MavlinkBridge._tracking_active
    br_current_setpoint,  \* MavlinkBridge._current_setpoint [sp, timestamp]
    br_iters,             \* completed iterations of the main loop
    \* OffboardSession
    ob_active, ob_streaming,
    ob_current_setpoint,  \* OffboardSession._current_setpoint (under _setpoint_lock)
    wk_pc,                \* position of the streaming worker (_streaming_loop)
    wk_setpoint,          \* the worker's local variable setpoint
    wk_sent,              \* last setpoint sent, with the failsafe state and is_active at the send
    ob_request,           \* the mode request of the last start(): "none", "pending" or its outcome
    ob_start_ret,         \* last start(): "none", "running", "True" or "False"
    wk_sent_pending,      \* a setpoint was sent while the mode request of the last start() was pending
    wk_after_clear,       \* setpoints the current worker sent with the run flag false
    br_running,           \* MavlinkBridge._running
    sd_pc,                \* position of the thread calling MavlinkBridge.stop at shutdown
    \* TargetingNode
    tracking_enabled,     \* TargetingNode._tracking_enabled
    current_tracks,       \* TargetingNode._current_tracks (Optional track list)
    tg_pc,                \* position of the targeting main loop (_run_loop)
    tg_iters,             \* completed iterations of the targeting main loop
    tg_op,                \* last step of the loop: the command type handled, "tracks" or "tick"
    tg_last_rx,           \* time the last TrackList was received
    tg_cmd_id,            \* track_id of the last command handled
    \* OffboardSession with its callers and every worker it has started
    os_active,            \* OffboardSession._active
    os_streaming,         \* OffboardSession._streaming
    os_stream_thread,     \* OffboardSession._stream_thread (0: None, else the worker's number)
    os_workers,           \* position of each worker thread started so far
    os_pc,                \* position of each calling thread inside start() / stop()
    os_joining,           \* the worker each calling thread is joining (0: none)
    os_calls,             \* calls of start() and stop() made so far
    tg_errors,            \* Errors published by the last iteration (None: nothing published)
    \* ControlMapper
    thrust_enabled,       \* ControlConfig.thrust_enabled
    cm_op,                \* last ControlMapper operation
    cm_errors,            \* Errors passed to the last map
    cm_raw,               \* roll, pitch and thrust of the last map before the limits
    cm_ret,               \* Setpoint returned by the last map
    \* ControlNode
    cn_pc,                \* position of the loop thread and of the thread of run_all_components
    cn_running,           \* ControlNode._running
    cn_last_errors,       \* ControlNode._last_errors (Optional Errors)
    cn_last_rx,           \* time the last Errors message was received
    cn_setpoint,          \* the local variable setpoint of _run_loop
    cn_pub,               \* last message sent on the setpoints topic, with its origin
    cn_closed,            \* the publisher socket has been closed
    cn_ticks,             \* iterations of the loop started so far
    cn_gate,              \* how the last _compute_setpoint ended: "none", "pass" or "failsafe"
    \* ZmqPublisher / ZmqSubscriber
    bus_op,               \* last bus operation
    bus_msg,              \* message passed to the last publish
    bus_wire,             \* whether the last publish sent a payload, and the payload
    bus_rx,               \* what receive returned for it, and the subscriber's type registry
    \* topic qgc_cmds, from MavlinkBridge._handle_command to TargetingNode._process_commands
    qgc_op,               \* last step on the topic: "init", "publish" or "process"
    qgc_queue,            \* payloads sent and not yet received by Targeting
    qgc_parsed,           \* number of commands Flight-Link parsed and handled
    qgc_cmd,              \* the last of them
    qgc_received,         \* number of commands Targeting received and dispatched
    qgc_applied,          \* cmd_type of the last command Targeting dispatched
    \* TelemetryReceiver
    last_heartbeat_time,  \* _last_heartbeat_time
    connected,            \* _connected
    tm_op,                \* last operation on the receiver
    tm_ret,               \* value of the last is_connected
    tm_hb,                \* time of the most recent flight-controller heartbeat
    tm_lapsed,            \* is_connected has been false after a heartbeat
    tm_calls,             \* operations so far
    \* TargetingNode depth range and ErrorComputer
    min_depth,            \* TargetingNode._min_depth, 0.1 m
    max_depth,            \* TargetingNode._max_depth, 0.1 m
    depth_sets,           \* SET_DEPTH_RANGE commands handled
    ec_op,                \* last operation: "init", "set_depth_range" or "compute"
    ec_args,              \* arguments of the last compute
    ec_ret,               \* Errors returned by the last compute
    \* CustomTelemetrySender
    last_tracks_send,     \* _last_tracks_send, ms
    ct_op,                \* last operation on the sender
    ct_value,             \* value of the last TRK_COUNT emitted
    ct_emitted,           \* time of the last TRK_COUNT emission
    ct_gap,               \* time between the last two TRK_COUNT emissions
    ct_calls,             \* calls of send_track_count so far
    \* build_attitude_target_quaternion
    q_op,                 \* "init" or "build"
    q_args,               \* roll, pitch and yaw of the last call, degrees
    q_ret                 \* quaternion returned by the last call, components in 1/10000

safetyVars == <<roll_ema, pitch_ema, roll_slew, pitch_slew, last_valid_time,
                last_telemetry_time, failsafe_active, bench_mode,
                sm_calls, sm_op, sm_arg, sm_ret, sm_hist>>

failsafeVars == <<fs_state, failsafe_entry_time, recovery_start_time,
                  last_track_valid_time, fs_last_telemetry_time,
                  fs_calls, fs_op, fs_pre, fs_target, fs_nominal_since>>

lockFields == <<locked_track_id, lock_timestamp, last_seen_timestamp, lock_bbox,
                status, frames_locked>>

lockVars == <<lockFields, lk_calls, lk_op, lk_arg, lk_ok, lk_ret, lk_pre>>

bridgeVars == <<br_pc, tracking_active, br_current_setpoint, br_iters,
                ob_active, ob_streaming, ob_current_setpoint,
                wk_pc, wk_setpoint, wk_sent,
                ob_request, ob_start_ret, wk_sent_pending, wk_after_clear, br_running, sd_pc>>

targetingVars == <<tracking_enabled, current_tracks, tg_pc, tg_iters, tg_op, tg_last_rx,
                   tg_cmd_id, tg_errors>>

mapperVars == <<thrust_enabled, cm_op, cm_errors, cm_raw, cm_ret>>

telemetryVars == <<last_heartbeat_time, connected, tm_op, tm_ret, tm_hb, tm_lapsed, tm_calls>>
quaternionVars == <<q_op, q_args, q_ret>>
customTelemetryVars == <<last_tracks_send, ct_op, ct_value, ct_emitted, ct_gap, ct_calls>>
errorVars == <<min_depth, max_depth, depth_sets, ec_op, ec_args, ec_ret>>
commandVars == <<qgc_op, qgc_queue, qgc_parsed, qgc_cmd, qgc_received, qgc_applied>>
busVars == <<bus_op, bus_msg, bus_wire, bus_rx, commandVars>>

controlVars == <<cn_pc, cn_running, cn_last_errors, cn_last_rx, cn_setpoint, cn_pub, cn_closed,
                 cn_ticks, cn_gate>>

sessionVars == <<os_active, os_streaming, os_stream_thread, os_workers, os_pc, os_joining,
                 os_calls>>

\* What the steps of one component leave unchanged: the other components.
outsideSafety == <<sessionVars, quaternionVars, busVars, telemetryVars, errorVars, customTelemetryVars, controlVars, failsafeVars, lockVars, bridgeVars, targetingVars, mapperVars>>
outsideFailsafe == <<sessionVars, quaternionVars, busVars, telemetryVars, errorVars, customTelemetryVars, controlVars, safetyVars, lockVars, bridgeVars, targetingVars, mapperVars>>
outsideLock == <<sessionVars, quaternionVars, busVars, telemetryVars, errorVars, customTelemetryVars, controlVars, safetyVars, failsafeVars, bridgeVars, targetingVars, mapperVars>>
outsideBridge == <<sessionVars, quaternionVars, busVars, telemetryVars, errorVars, customTelemetryVars, controlVars, safetyVars, lockVars, targetingVars, mapperVars>>
outsideTargeting == <<sessionVars, quaternionVars, busVars, telemetryVars, errorVars, customTelemetryVars, controlVars, safetyVars, failsafeVars, bridgeVars, mapperVars>>
outsideMapper == <<sessionVars, quaternionVars, now, safetyVars, failsafeVars, lockVars, bridgeVars, targetingVars,
                   controlVars, busVars, telemetryVars, errorVars, customTelemetryVars>>
busFields == <<bus_op, bus_msg, bus_wire, bus_rx>>
outsideBus == <<sessionVars, quaternionVars, now, safetyVars, failsafeVars, lockVars, bridgeVars, targetingVars,
                mapperVars, controlVars, telemetryVars, errorVars, customTelemetryVars>>
outsideTelemetry == <<sessionVars, quaternionVars, safetyVars, failsafeVars, lockVars, bridgeVars, targetingVars,
                      mapperVars, controlVars, busVars, errorVars, customTelemetryVars>>
outsideErrors == <<sessionVars, quaternionVars, now, safetyVars, failsafeVars, lockVars, bridgeVars, targetingVars,
                   mapperVars, controlVars, busVars, telemetryVars, customTelemetryVars>>
outsideCustomTelemetry == <<sessionVars, quaternionVars, safetyVars, failsafeVars, lockVars, bridgeVars, targetingVars,
                            mapperVars, controlVars, busVars, telemetryVars, errorVars>>
outsideSession == <<quaternionVars, now, safetyVars, failsafeVars, lockVars, bridgeVars,
                    targetingVars, mapperVars, controlVars, busVars, telemetryVars,
                    errorVars, customTelemetryVars>>
outsideQuaternion == <<sessionVars, now, safetyVars, failsafeVars, lockVars, bridgeVars, targetingVars,
                       mapperVars, controlVars, busVars, telemetryVars, errorVars,
                       customTelemetryVars>>
outsideControl == <<sessionVars, quaternionVars, busVars, telemetryVars, errorVars, customTelemetryVars, failsafeVars, lockVars, bridgeVars, targetingVars, mapperVars>>

vars == <<sessionVars, quaternionVars, now, safetyVars, failsafeVars, lockVars, bridgeVars, targetingVars, mapperVars,
          controlVars, busVars, telemetryVars, errorVars, customTelemetryVars>>

\* =========================================================== common/filters
\* EMAFilter.update: new _value (which is also the returned output).
EMAFilter_update(f, alpha_tenths, value) ==
    IF ~f.some THEN Some(value)
    ELSE Some((alpha_tenths * value + (10 - alpha_tenths) * f.v) \div 10)

\* SlewRateLimiter.reset(value)
SlewRateLimiter_reset(value, t) ==
    [last_value |-> value, last_time |-> IF value.some THEN Some(t) ELSE None]

\* SlewRateLimiter.update(value) at time t: [st |-> new limiter, out |-> returned]
SlewRateLimiter_update(s, max_rate_deg_s, value, t) ==
    IF ~s.last_value.some \/ ~s.last_time.some
    THEN [st |-> [last_value |-> Some(value), last_time |-> Some(t)], out |-> value]
    ELSE LET dt == t - s.last_time.v IN
         IF dt <= 0 THEN [st |-> s, out |-> s.last_value.v]
         ELSE LET max_change == (Deg(max_rate_deg_s) * dt) \div 1000
                  delta0 == value - s.last_value.v
                  delta == IF Abs(delta0) > max_change
                           THEN (IF delta0 > 0 THEN max_change ELSE -max_change)
                           ELSE delta0
                  nv == s.last_value.v + delta
              IN [st |-> [last_value |-> Some(nv), last_time |-> Some(t)], out |-> nv]

Min2(a, b) == IF a < b THEN a ELSE b
Max2(a, b) == IF a > b THEN a ELSE b

\* clamp(value, min_val, max_val) (and a clamp with the upper limit only)
clamp_UpperOnly(value, min_val, max_val) == Min2(max_val, value)
clamp(value, min_val, max_val) == Max2(min_val, Min2(max_val, value))

\* ==================================================== control/safety_manager
Setpoint(r, p, th, y) == [roll_deg |-> r, pitch_deg |-> p, thrust |-> th, yaw_deg |-> y]
Setpoint_neutral == Setpoint(0, 0, 0, 0)

\* Raw setpoints offered to apply (centi-degrees, thrust in hundredths).
RawSetpoints ==
    { Setpoint(Deg(50), Deg(30), 80, Deg(5)),
      Setpoint(Deg(-50), Deg(-30), 80, 0),
      Setpoint(0, 0, 0, 0) }

\* Clock advances between two calls (ms).
SafetySteps == {0, 100, 1100}

\* SafetyManager._check_gates (last_telem is _last_telemetry_time after apply
\* has refreshed it).
check_gates(lock_valid, track_fresh, telemetry_fresh, current_time, last_valid, last_telem) ==
    IF ~lock_valid THEN FALSE
    ELSE IF ~track_fresh THEN FALSE
    ELSE IF last_valid.some /\ (current_time - last_valid.v) > track_timeout_ms THEN FALSE
    ELSE IF ~telemetry_fresh /\ last_telem.some
            /\ (current_time - last_telem.v) > telemetry_timeout_ms THEN FALSE
    ELSE TRUE

\* Bench-mode thrust override of apply (thrust = 0.0 if bench_mode else setpoint.thrust)
BenchThrust_NoOverride(bench, thrust) == thrust
BenchThrust(bench, thrust) == IF bench THEN 0 ELSE thrust

\* SafetyManager._get_failsafe_setpoint at time t
get_failsafe_setpoint(t) ==
    LET r == SlewRateLimiter_update(roll_slew, roll_slew_rate_deg_s, 0, t)
        p == SlewRateLimiter_update(pitch_slew, pitch_slew_rate_deg_s, 0, t)
    IN [roll_slew |-> r.st, pitch_slew |-> p.st,
        out |-> Setpoint(r.out, p.out, 0, 0)]

\* The filter chain of apply after the gate has passed.
apply_filters(setpoint, t) ==
    LET re == EMAFilter_update(roll_ema, roll_ema_alpha_tenths, setpoint.roll_deg)
        pe == EMAFilter_update(pitch_ema, pitch_ema_alpha_tenths, setpoint.pitch_deg)
        rs == SlewRateLimiter_update(roll_slew, roll_slew_rate_deg_s, re.v, t)
        ps == SlewRateLimiter_update(pitch_slew, pitch_slew_rate_deg_s, pe.v, t)
    IN [roll_ema |-> re, pitch_ema |-> pe, roll_slew |-> rs.st, pitch_slew |-> ps.st,
        out |-> Setpoint(clamp(rs.out, -Deg(roll_limit_deg), Deg(roll_limit_deg)),
                         clamp(ps.out, -Deg(pitch_limit_deg), Deg(pitch_limit_deg)),
                         BenchThrust(bench_mode, setpoint.thrust),
                         setpoint.yaw_deg)]

\* An apply output as remembered for comparing consecutive outputs.
NoOutput == [some |-> FALSE, roll_deg |-> 0, pitch_deg |-> 0, t |-> 0]
OutputAt(sp, t) == [some |-> TRUE, roll_deg |-> sp.roll_deg, pitch_deg |-> sp.pitch_deg, t |-> t]

\* SafetyManager.apply
apply(setpoint, lock_valid, track_fresh, telemetry_fresh, dt) ==
    /\ sm_calls < MaxCalls
    /\ sm_calls' = sm_calls + 1
    /\ LET current_time == now + dt
           telem == IF telemetry_fresh THEN Some(current_time) ELSE last_telemetry_time
           pass == check_gates(lock_valid, track_fresh, telemetry_fresh,
                               current_time, last_valid_time, telem)
           fs == get_failsafe_setpoint(current_time)
           ok == apply_filters(setpoint, current_time)
           ret == IF pass THEN ok.out ELSE fs.out
       IN /\ now' = current_time
          /\ last_telemetry_time' = telem
          /\ IF ~pass
             THEN /\ failsafe_active' = TRUE
                  /\ roll_slew' = fs.roll_slew
                  /\ pitch_slew' = fs.pitch_slew
                  /\ sm_op' = "apply_failsafe"
                  /\ UNCHANGED <<roll_ema, pitch_ema, last_valid_time>>
             ELSE /\ last_valid_time' = Some(current_time)
                  /\ failsafe_active' = FALSE
                  /\ roll_ema' = ok.roll_ema
                  /\ pitch_ema' = ok.pitch_ema
                  /\ roll_slew' = ok.roll_slew
                  /\ pitch_slew' = ok.pitch_slew
                  /\ sm_op' = "apply_pass"
          /\ sm_ret' = ret
          /\ sm_arg' = [thrust |-> setpoint.thrust, lock_valid |-> lock_valid,
                        track_fresh |-> track_fresh, telemetry_fresh |-> telemetry_fresh]
          /\ sm_hist' = <<sm_hist[2], OutputAt(ret, current_time)>>
          /\ UNCHANGED bench_mode

\* SafetyManager.reset
reset(dt) ==
    /\ sm_calls < MaxCalls
    /\ sm_calls' = sm_calls + 1
    /\ now' = now + dt
    /\ roll_ema' = None
    /\ pitch_ema' = None
    /\ roll_slew' = SlewRateLimiter_reset(None, now + dt)
    /\ pitch_slew' = SlewRateLimiter_reset(None, now + dt)
    /\ last_valid_time' = None
    /\ last_telemetry_time' = None
    /\ failsafe_active' = FALSE
    /\ sm_op' = "reset"
    /\ UNCHANGED <<bench_mode, sm_arg, sm_ret, sm_hist>>

\* A force_neutral that returns neutral and leaves the filters as they are.
force_neutral_KeepFilters(dt) ==
    /\ sm_calls < MaxCalls
    /\ sm_calls' = sm_calls + 1
    /\ now' = now + dt
    /\ sm_ret' = Setpoint_neutral
    /\ sm_op' = "force_neutral"
    /\ UNCHANGED <<roll_ema, pitch_ema, roll_slew, pitch_slew, last_valid_time,
                   last_telemetry_time, failsafe_active, bench_mode, sm_arg, sm_hist>>

\* SafetyManager.force_neutral
force_neutral(dt) ==
    /\ sm_calls < MaxCalls
    /\ sm_calls' = sm_calls + 1
    /\ now' = now + dt
    /\ roll_ema' = Some(0)
    /\ pitch_ema' = Some(0)
    /\ roll_slew' = SlewRateLimiter_reset(Some(0), now + dt)
    /\ pitch_slew' = SlewRateLimiter_reset(Some(0), now + dt)
    /\ sm_ret' = Setpoint_neutral
    /\ sm_op' = "force_neutral"
    /\ UNCHANGED <<last_valid_time, last_telemetry_time, failsafe_active,
                   bench_mode, sm_arg, sm_hist>>

\* SafetyManager.set_bench_mode
set_bench_mode(enabled) ==
    /\ bench_mode # enabled
    /\ sm_calls < MaxCalls
    /\ sm_calls' = sm_calls + 1
    /\ bench_mode' = enabled
    /\ sm_op' = "set_bench_mode"
    /\ UNCHANGED <<now, roll_ema, pitch_ema, roll_slew, pitch_slew, last_valid_time,
                   last_telemetry_time, failsafe_active, sm_arg, sm_ret, sm_hist>>

\* SafetyManager.__init__ (SafetyConfig.bench_mode defaults to True)
InitSafety ==
    /\ roll_ema = None
    /\ pitch_ema = None
    /\ roll_slew = [last_value |-> None, last_time |-> None]
    /\ pitch_slew = [last_value |-> None, last_time |-> None]
    /\ last_valid_time = None
    /\ last_telemetry_time = None
    /\ failsafe_active = FALSE
    /\ bench_mode = TRUE
    /\ sm_calls = 0
    /\ sm_op = "init"
    /\ sm_arg = [thrust |-> 0, lock_valid |-> FALSE,
                 track_fresh |-> FALSE, telemetry_fresh |-> FALSE]
    /\ sm_ret = Setpoint_neutral
    /\ sm_hist = <<NoOutput, NoOutput>>

ApplyStep ==
    /\ \E sp \in RawSetpoints, lv \in BOOLEAN, tf \in BOOLEAN, tel \in BOOLEAN, dt \in SafetySteps :
           apply(sp, lv, tf, tel, dt)
    /\ UNCHANGED outsideSafety

ResetStep ==
    /\ \E dt \in SafetySteps : reset(dt)
    /\ UNCHANGED outsideSafety

ForceNeutralStep ==
    /\ \E dt \in SafetySteps : force_neutral(dt)
    /\ UNCHANGED outsideSafety

SetBenchModeStep ==
    /\ \E b \in BOOLEAN : set_bench_mode(b)
    /\ UNCHANGED outsideSafety

NextSafety == ApplyStep \/ ResetStep \/ ForceNeutralStep \/ SetBenchModeStep

\* ========================================================= mavlink/failsafe
\* An elapsed time that takes a time never set for "just now".
elapsed_ms_NeverIsNow(last_time, current_time) ==
    IF ~last_time.some THEN Some(0) ELSE Some(current_time - last_time.v)

\* FailsafeManager._elapsed_ms: [some |-> FALSE] stands for float('inf').
elapsed_ms(last_time, current_time) ==
    IF ~last_time.some THEN None ELSE Some(current_time - last_time.v)

\* elapsed >= threshold, with an infinite elapsed time above every threshold.
AtLeast(elapsed, threshold_ms) == ~elapsed.some \/ elapsed.v >= threshold_ms

\* The threshold comparisons written with > in place of >=.
MoreThan(elapsed, threshold_ms) == ~elapsed.some \/ elapsed.v > threshold_ms
evaluate_conditions_Strict(track_elapsed_ms, telem_elapsed_ms) ==
    IF MoreThan(track_elapsed_ms, track_lost_failsafe_ms)
       \/ MoreThan(telem_elapsed_ms, telemetry_lost_failsafe_ms)
    THEN "FAILSAFE"
    ELSE IF MoreThan(track_elapsed_ms, track_lost_warning_ms)
            \/ MoreThan(telem_elapsed_ms, telemetry_lost_warning_ms)
    THEN "WARNING"
    ELSE "NOMINAL"

\* FailsafeManager._evaluate_conditions
evaluate_conditions(track_elapsed_ms, telem_elapsed_ms) ==
    IF AtLeast(track_elapsed_ms, track_lost_failsafe_ms)
       \/ AtLeast(telem_elapsed_ms, telemetry_lost_failsafe_ms)
    THEN "FAILSAFE"
    ELSE IF AtLeast(track_elapsed_ms, track_lost_warning_ms)
            \/ AtLeast(telem_elapsed_ms, telemetry_lost_warning_ms)
    THEN "WARNING"
    ELSE "NOMINAL"

\* A state machine that adopts the target state at once.
transition_Direct(state, target, current_time, entry_time, recovery_start) ==
    [state |-> target, failsafe_entry_time |-> entry_time,
     recovery_start_time |-> recovery_start]

\* A state machine that enters RECOVERY without recording when.
transition_NoRecoveryStart(state, target, current_time, entry_time, recovery_start) ==
    IF state = "FAILSAFE"
    THEN [state |-> IF target = "FAILSAFE" THEN "FAILSAFE" ELSE "RECOVERY",
          failsafe_entry_time |-> entry_time, recovery_start_time |-> recovery_start]
    ELSE IF state = "RECOVERY"
    THEN IF target = "FAILSAFE"
         THEN [state |-> "FAILSAFE", failsafe_entry_time |-> entry_time,
               recovery_start_time |-> None]
         ELSE IF target = "NOMINAL" /\ recovery_start.some
                 /\ (current_time - recovery_start.v) >= recovery_confirmation_ms
         THEN [state |-> "NOMINAL", failsafe_entry_time |-> entry_time,
               recovery_start_time |-> None]
         ELSE [state |-> state, failsafe_entry_time |-> entry_time,
               recovery_start_time |-> recovery_start]
    ELSE [state |-> target,
          failsafe_entry_time |-> IF target = "FAILSAFE" THEN Some(current_time)
                                  ELSE entry_time,
          recovery_start_time |-> recovery_start]

\* FailsafeManager._transition: the new state and the timestamps it records.
transition(state, target, current_time, entry_time, recovery_start) ==
    LET stay == [state |-> state, failsafe_entry_time |-> entry_time,
                 recovery_start_time |-> recovery_start]
    IN
    IF state = "NOMINAL" THEN
        IF target = "WARNING" THEN [stay EXCEPT !.state = "WARNING"]
        ELSE IF target = "FAILSAFE"
        THEN [stay EXCEPT !.state = "FAILSAFE", !.failsafe_entry_time = Some(current_time)]
        ELSE stay
    ELSE IF state = "WARNING" THEN
        IF target = "NOMINAL" THEN [stay EXCEPT !.state = "NOMINAL"]
        ELSE IF target = "FAILSAFE"
        THEN [stay EXCEPT !.state = "FAILSAFE", !.failsafe_entry_time = Some(current_time)]
        ELSE stay
    ELSE IF state = "FAILSAFE" THEN
        IF target = "NOMINAL" \/ target = "WARNING"
        THEN [stay EXCEPT !.state = "RECOVERY", !.recovery_start_time = Some(current_time)]
        ELSE stay
    ELSE IF state = "RECOVERY" THEN
        IF target = "FAILSAFE"
        THEN [stay EXCEPT !.state = "FAILSAFE", !.recovery_start_time = None]
        ELSE IF target = "NOMINAL" /\ recovery_start.some
                /\ (current_time - recovery_start.v) >= recovery_confirmation_ms
        THEN [stay EXCEPT !.state = "NOMINAL", !.recovery_start_time = None]
        ELSE stay
    ELSE stay

\* FailsafeManager.update at time current_time
FailsafeManager_update(track_valid, telemetry_valid, lock_valid, current_time) ==
    LET track_t == IF track_valid /\ lock_valid THEN Some(current_time)
                   ELSE last_track_valid_time
        telem_t == IF telemetry_valid THEN Some(current_time) ELSE fs_last_telemetry_time
        target_state == evaluate_conditions(elapsed_ms(track_t, current_time),
                                            elapsed_ms(telem_t, current_time))
        new == transition(fs_state, target_state, current_time,
                          failsafe_entry_time, recovery_start_time)
    IN /\ last_track_valid_time' = track_t
       /\ fs_last_telemetry_time' = telem_t
       /\ fs_state' = new.state
       /\ failsafe_entry_time' = new.failsafe_entry_time
       /\ recovery_start_time' = new.recovery_start_time
       /\ fs_op' = "update"
       /\ fs_pre' = [state |-> fs_state, recovery_start_time |-> recovery_start_time]
       /\ fs_target' = target_state
       /\ fs_nominal_since' = IF target_state # "NOMINAL" THEN None
                              ELSE IF fs_nominal_since.some THEN fs_nominal_since
                              ELSE Some(current_time)

\* FailsafeManager.reset
FailsafeManager_reset(current_time) ==
    /\ fs_state' = "NOMINAL"
    /\ failsafe_entry_time' = None
    /\ recovery_start_time' = None
    /\ last_track_valid_time' = Some(current_time)
    /\ fs_last_telemetry_time' = Some(current_time)
    /\ fs_op' = "reset"
    /\ fs_nominal_since' = None
    /\ UNCHANGED <<fs_pre, fs_target>>

\* FailsafeManager.should_command_neutral
should_command_neutral == fs_state \in {"FAILSAFE", "RECOVERY"}

\* FailsafeManager.__init__
InitFailsafe ==
    /\ fs_state = "NOMINAL"
    /\ failsafe_entry_time = None
    /\ recovery_start_time = None
    /\ last_track_valid_time = None
    /\ fs_last_telemetry_time = None
    /\ fs_calls = 0
    /\ fs_op = "init"
    /\ fs_pre = [state |-> "NOMINAL", recovery_start_time |-> None]
    /\ fs_target = "NOMINAL"
    /\ fs_nominal_since = None

\* Clock advances between two FailsafeManager calls (ms).
FailsafeSteps == {0, 100, 250, 500}

FsUpdateStep ==
    /\ fs_calls < MaxFsCalls
    /\ fs_calls' = fs_calls + 1
    /\ \E tv \in BOOLEAN, mv \in BOOLEAN, lv \in BOOLEAN, dt \in FailsafeSteps :
           /\ now' = now + dt
           /\ FailsafeManager_update(tv, mv, lv, now + dt)
    /\ UNCHANGED outsideFailsafe

FsResetStep ==
    /\ fs_calls < MaxFsCalls
    /\ fs_calls' = fs_calls + 1
    /\ \E dt \in FailsafeSteps :
           /\ now' = now + dt
           /\ FailsafeManager_reset(now + dt)
    /\ UNCHANGED outsideFailsafe

NextFailsafe == FsUpdateStep \/ FsResetStep

\* ================================================== targeting/lock_manager
\* common/types.py: BoundingBox, Track (the fields the lock manager reads).
BoundingBox(x1, y1, x2, y2) == [x1 |-> x1, y1 |-> y1, x2 |-> x2, y2 |-> y2]
Track(track_id, bbox) == [track_id |-> track_id, bbox |-> bbox]

\* common/types.py: LockState, with the dataclass defaults.
LockState(st, id, ts, frames) ==
    [status |-> st, locked_track_id |-> id, lock_timestamp |-> ts,
     frames_since_lock |-> frames]
LockState_default(st) == LockState(st, None, None, 0)

\* Track lists passed to the lock manager: two overlapping boxes and a far one.
Track1 == Track(1, BoundingBox(0, 0, 20, 20))
Track2 == Track(2, BoundingBox(10, 10, 50, 50))
Track3 == Track(3, BoundingBox(300, 300, 340, 340))
TrackLists == {<<>>, <<Track1>>, <<Track1, Track2>>, <<Track2, Track1>>, <<Track3>>}
TrackIds == {1, 2}
Pixels == {<<15, 15>>, <<22, 10>>, <<60, 30>>, <<250, 320>>}
LockSteps == {0, 400, 500, 1500, 2000}
SelectSteps == {0, 400}

\* The for-loops of select_by_id and update: index of the first track with the
\* given id, 0 when there is none.
find_track_First(tracks, track_id) == IF Len(tracks) > 0 THEN 1 ELSE 0
find_track(tracks, track_id) ==
    IF \E i \in 1..Len(tracks) : tracks[i].track_id = track_id
    THEN CHOOSE i \in 1..Len(tracks) :
             /\ tracks[i].track_id = track_id
             /\ \A j \in 1..(i - 1) : tracks[j].track_id # track_id
    ELSE 0

\* Squared distance from (u, v) to the bbox centre, times 4 (the centre is
\* ((x1+x2)/2, (y1+y2)/2)).
distance_sq4(bbox, u, v) ==
    (2 * u - (bbox.x1 + bbox.x2)) * (2 * u - (bbox.x1 + bbox.x2))
    + (2 * v - (bbox.y1 + bbox.y2)) * (2 * v - (bbox.y1 + bbox.y2))

\* The scan without the containment test: nearest centre only.
RECURSIVE pixel_scan_NearestOnly(_, _, _, _, _, _)
pixel_scan_NearestOnly(tracks, i, best, d, u, v) ==
    IF i > Len(tracks) THEN [best |-> best, d |-> d]
    ELSE IF best = 0 \/ distance_sq4(tracks[i].bbox, u, v) < d
    THEN pixel_scan_NearestOnly(tracks, i + 1, i, distance_sq4(tracks[i].bbox, u, v), u, v)
    ELSE pixel_scan_NearestOnly(tracks, i + 1, best, d, u, v)

\* The scan of select_by_pixel from index i on: best = index of best_track
\* (0 is None) and d = 4 * best_distance^2 (meaningful when best > 0).
RECURSIVE pixel_scan(_, _, _, _, _, _)
pixel_scan(tracks, i, best, d, u, v) ==
    IF i > Len(tracks) THEN [best |-> best, d |-> d]
    ELSE LET bbox == tracks[i].bbox IN
         IF bbox.x1 <= u /\ u <= bbox.x2 /\ bbox.y1 <= v /\ v <= bbox.y2
         THEN [best |-> i, d |-> 0]
         ELSE IF best = 0 \/ distance_sq4(bbox, u, v) < d
         THEN pixel_scan(tracks, i + 1, i, distance_sq4(bbox, u, v), u, v)
         ELSE pixel_scan(tracks, i + 1, best, d, u, v)

\* The fields before an operation.
LockFieldsNow ==
    [locked_track_id |-> locked_track_id, lock_timestamp |-> lock_timestamp,
     last_seen_timestamp |-> last_seen_timestamp, lock_bbox |-> lock_bbox,
     status |-> status, frames_locked |-> frames_locked]

\* _lock_to_track without the restart of _frames_locked.
lock_to_track_KeepFrames(track, current_time) ==
    /\ locked_track_id' = Some(track.track_id)
    /\ lock_timestamp' = Some(current_time)
    /\ last_seen_timestamp' = Some(current_time)
    /\ lock_bbox' = Some(track.bbox)
    /\ status' = "LOCKED"
    /\ frames_locked' = frames_locked

\* LockManager._lock_to_track
lock_to_track(track, current_time) ==
    /\ locked_track_id' = Some(track.track_id)
    /\ lock_timestamp' = Some(current_time)
    /\ last_seen_timestamp' = Some(current_time)
    /\ lock_bbox' = Some(track.bbox)
    /\ status' = "LOCKED"
    /\ frames_locked' = 0

\* clear_lock leaving the two timestamps as they were.
clear_lock_KeepTimestamps ==
    /\ locked_track_id' = None
    /\ lock_timestamp' = lock_timestamp
    /\ last_seen_timestamp' = last_seen_timestamp
    /\ lock_bbox' = None
    /\ status' = "UNLOCKED"
    /\ frames_locked' = 0

\* clear_lock leaving _status as it was.
clear_lock_KeepStatus ==
    /\ locked_track_id' = None
    /\ lock_timestamp' = None
    /\ last_seen_timestamp' = None
    /\ lock_bbox' = None
    /\ status' = status
    /\ frames_locked' = 0

\* LockManager.clear_lock
clear_lock ==
    /\ locked_track_id' = None
    /\ lock_timestamp' = None
    /\ last_seen_timestamp' = None
    /\ lock_bbox' = None
    /\ status' = "UNLOCKED"
    /\ frames_locked' = 0

\* select_by_id dropping the current lock when the id is not found.
select_by_id_ClearOnMiss(track_id, tracks, current_time) ==
    LET i == find_track(tracks, track_id) IN
    /\ lk_op' = "select_by_id"
    /\ lk_arg' = [track_id |-> track_id, u |-> 0, v |-> 0, tracks |-> tracks]
    /\ lk_pre' = LockFieldsNow
    /\ lk_ret' = lk_ret
    /\ IF i > 0
       THEN lock_to_track(tracks[i], current_time) /\ lk_ok' = TRUE
       ELSE clear_lock /\ lk_ok' = FALSE

\* LockManager.select_by_id
select_by_id(track_id, tracks, current_time) ==
    LET i == find_track(tracks, track_id) IN
    /\ lk_op' = "select_by_id"
    /\ lk_arg' = [track_id |-> track_id, u |-> 0, v |-> 0, tracks |-> tracks]
    /\ lk_pre' = LockFieldsNow
    /\ lk_ret' = lk_ret
    /\ IF i > 0
       THEN lock_to_track(tracks[i], current_time) /\ lk_ok' = TRUE
       ELSE UNCHANGED lockFields /\ lk_ok' = FALSE

\* LockManager.select_by_pixel
select_by_pixel(u, v, tracks, current_time) ==
    LET r == pixel_scan(tracks, 1, 0, 0, u, v) IN
    /\ lk_op' = "select_by_pixel"
    /\ lk_arg' = [track_id |-> 0, u |-> u, v |-> v, tracks |-> tracks]
    /\ lk_pre' = LockFieldsNow
    /\ lk_ret' = lk_ret
    /\ IF tracks = <<>>
       THEN UNCHANGED lockFields /\ lk_ok' = FALSE
       ELSE IF r.best > 0 /\ r.d <= 4 * max_pixel_distance * max_pixel_distance
       THEN lock_to_track(tracks[r.best], current_time) /\ lk_ok' = TRUE
       ELSE UNCHANGED lockFields /\ lk_ok' = FALSE

\* A lock that is never given up: LOST from lock_timeout_ms on.
absent_status_NeverGiveUp(time_since_seen) ==
    IF time_since_seen < lock_timeout_ms THEN "LOCKING" ELSE "LOST"

\* The timeout tests written with <= in place of <.
absent_status_Inclusive(time_since_seen) ==
    IF time_since_seen <= lock_timeout_ms THEN "LOCKING"
    ELSE IF time_since_seen <= reacquire_timeout_ms THEN "LOST"
    ELSE "UNLOCKED"

\* LockManager.update, locked track not in the frame: the status for the time
\* since it was last seen, "UNLOCKED" standing for the give-up branch.
absent_status(time_since_seen) ==
    IF time_since_seen < lock_timeout_ms THEN "LOCKING"
    ELSE IF time_since_seen < reacquire_timeout_ms THEN "LOST"
    ELSE "UNLOCKED"

\* LockManager.update
LockManager_update(tracks, current_time) ==
    /\ lk_op' = "update"
    /\ lk_arg' = [track_id |-> 0, u |-> 0, v |-> 0, tracks |-> tracks]
    /\ lk_pre' = LockFieldsNow
    /\ lk_ok' = lk_ok
    /\ IF ~locked_track_id.some
       THEN /\ UNCHANGED lockFields
            /\ lk_ret' = LockState_default("UNLOCKED")
       ELSE LET found == find_track(tracks, locked_track_id.v)
                time_since_seen == current_time - last_seen_timestamp.v
            IN IF found > 0
               THEN /\ last_seen_timestamp' = Some(current_time)
                    /\ lock_bbox' = Some(tracks[found].bbox)
                    /\ status' = "LOCKED"
                    /\ frames_locked' = frames_locked + 1
                    /\ UNCHANGED <<locked_track_id, lock_timestamp>>
                    /\ lk_ret' = LockState("LOCKED", locked_track_id, lock_timestamp,
                                           frames_locked + 1)
               ELSE LET st == absent_status(time_since_seen) IN
                    IF st = "UNLOCKED"
                    THEN /\ clear_lock
                         /\ lk_ret' = LockState_default("UNLOCKED")
                    ELSE /\ status' = st
                         /\ UNCHANGED <<locked_track_id, lock_timestamp,
                                        last_seen_timestamp, lock_bbox, frames_locked>>
                         /\ lk_ret' = LockState(st, locked_track_id, lock_timestamp,
                                                frames_locked)

\* LockManager.get_lock_state
get_lock_state ==
    /\ lk_op' = "get_lock_state"
    /\ lk_ret' = LockState(status, locked_track_id, lock_timestamp, frames_locked)
    /\ lk_pre' = LockFieldsNow
    /\ UNCHANGED <<lockFields, lk_arg, lk_ok>>

\* LockManager.__init__
InitLock ==
    /\ locked_track_id = None
    /\ lock_timestamp = None
    /\ last_seen_timestamp = None
    /\ lock_bbox = None
    /\ status = "UNLOCKED"
    /\ frames_locked = 0
    /\ lk_calls = 0
    /\ lk_op = "init"
    /\ lk_arg = [track_id |-> 0, u |-> 0, v |-> 0, tracks |-> <<>>]
    /\ lk_ok = FALSE
    /\ lk_ret = LockState_default("UNLOCKED")
    /\ lk_pre = [locked_track_id |-> None, lock_timestamp |-> None,
                 last_seen_timestamp |-> None, lock_bbox |-> None,
                 status |-> "UNLOCKED", frames_locked |-> 0]

LockCall ==
    /\ lk_calls < MaxLockCalls
    /\ lk_calls' = lk_calls + 1
    /\ UNCHANGED outsideLock

SelectByIdStep ==
    /\ LockCall
    /\ \E id \in TrackIds, tracks \in TrackLists, dt \in SelectSteps :
           /\ now' = now + dt
           /\ select_by_id(id, tracks, now + dt)

SelectByPixelStep ==
    /\ LockCall
    /\ \E p \in Pixels, tracks \in TrackLists, dt \in SelectSteps :
           /\ now' = now + dt
           /\ select_by_pixel(p[1], p[2], tracks, now + dt)

LockUpdateStep ==
    /\ LockCall
    /\ \E tracks \in TrackLists, dt \in LockSteps :
           /\ now' = now + dt
           /\ LockManager_update(tracks, now + dt)

ClearLockStep ==
    /\ LockCall
    /\ \E dt \in SelectSteps : now' = now + dt
    /\ clear_lock
    /\ lk_op' = "clear_lock"
    /\ lk_pre' = LockFieldsNow
    /\ UNCHANGED <<lk_arg, lk_ok, lk_ret>>

GetLockStateStep ==
    /\ LockCall
    /\ get_lock_state
    /\ UNCHANGED now

NextLock ==
    \/ SelectByIdStep
    \/ SelectByPixelStep
    \/ LockUpdateStep
    \/ ClearLockStep
    \/ GetLockStateStep

\* ============================ mavlink/mavlink_bridge, mavlink/offboard_session
\* The bridge main loop and the streaming worker of its OffboardSession run
\* concurrently; each definition below is one atomic step of one of them.
\* The session object exists (connect() succeeded with pymavlink available).

\* Setpoints published by Control, and the commands of the ground station.
ControlSetpoints == {Setpoint(Deg(10), Deg(5), 0, 0), Setpoint_neutral}
BridgeCommands == {"NONE", "START_TRACKING", "STOP_TRACKING"}
\* Duration of one main-loop iteration, ms.
BridgeSteps == {100, 500}
\* time.sleep(0.5) of OffboardSession.start and time.sleep(0.3) of stop, ms.
prestream_sleep_ms == 500
stop_sleep_ms == 300
\* The freshness window of _update_failsafe (time.time() - 0.5), ms.
setpoint_fresh_ms == 500
\* OffboardConfig.mode_timeout_s, ms.
mode_timeout_ms == 5000

\* The record of the last start().
startHistory == <<ob_request, ob_start_ret, wk_sent_pending, wk_after_clear>>

\* The run flag of the bridge and the thread of run_all_components stopping it.
shutdownVars == <<br_running, sd_pc>>

\* A call of OffboardSession.stop has stored the neutral setpoint and has not
\* returned yet.
OffboardStopping ==
    \/ br_pc \in {"offboard_stop", "stop_join", "final_stop", "final_join"}
    \/ sd_pc \in {"offboard_stop", "stop_join"}

\* Outcomes of the wait for COMMAND_ACK in _request_offboard_mode, and the time
\* each takes, ms: an acknowledgement arrives or the send raises at once, the
\* wait ends after mode_timeout_s.
RequestOutcomes == {"accepted", "rejected", "timeout", "raised"}
RequestFailures == {"rejected", "timeout", "raised"}
request_duration_ms(outcome) == IF outcome = "timeout" THEN mode_timeout_ms ELSE 0

\* OffboardSession._request_offboard_mode: the value returned for an outcome
\* (and a request that takes a missing acknowledgement for success).
request_offboard_mode_Optimistic(outcome) == outcome \in {"accepted", "timeout"}
request_offboard_mode(outcome) == outcome = "accepted"

\* OffboardSession._stop_streaming: the run flag (and a teardown leaving it set).
stop_streaming_KeepFlag == UNCHANGED ob_streaming
stop_streaming == ob_streaming' = FALSE

\* OffboardSession._start_streaming
start_streaming ==
    IF ob_streaming
    THEN UNCHANGED <<ob_streaming, wk_pc>>
    ELSE ob_streaming' = TRUE /\ wk_pc' = "loop"

\* _run_loop: _receive_mavlink with at most one user command, handled by
\* _handle_command up to the first wait inside OffboardSession.start / stop.
ReceiveMavlink ==
    /\ br_pc = "receive_mavlink"
    /\ br_running
    /\ br_iters < MaxLoops
    /\ \E cmd \in BridgeCommands :
          IF cmd = "START_TRACKING"
          THEN /\ tracking_active' = TRUE
               /\ IF ~ob_active
                  THEN /\ start_streaming
                       /\ br_pc' = "offboard_start"
                       /\ ob_request' = "none"
                       /\ ob_start_ret' = "running"
                       /\ wk_sent_pending' = FALSE
                       /\ wk_after_clear' = 0
                  ELSE /\ br_pc' = "receive_zmq"
                       /\ UNCHANGED <<ob_streaming, wk_pc, startHistory>>
               /\ UNCHANGED ob_current_setpoint
          ELSE IF cmd = "STOP_TRACKING"
          THEN /\ tracking_active' = FALSE
               /\ IF ob_active
                  THEN ob_current_setpoint' = Setpoint_neutral /\ br_pc' = "offboard_stop"
                  ELSE br_pc' = "receive_zmq" /\ UNCHANGED ob_current_setpoint
               /\ UNCHANGED <<ob_streaming, wk_pc, startHistory>>
          ELSE /\ br_pc' = "receive_zmq"
               /\ UNCHANGED <<tracking_active, ob_streaming, wk_pc, ob_current_setpoint,
                              startHistory>>
    /\ UNCHANGED <<now, br_current_setpoint, br_iters, ob_active, wk_setpoint, wk_sent>>
    /\ UNCHANGED <<failsafeVars, shutdownVars, outsideBridge>>

\* OffboardSession.start after the pre-stream sleep: _request_offboard_mode
\* sends the SetMode command.
OffboardStartRequest ==
    /\ br_pc = "offboard_start"
    /\ now' = now + prestream_sleep_ms
    /\ ob_request' = "pending"
    /\ br_pc' = "await_ack"
    /\ UNCHANGED <<tracking_active, br_current_setpoint, br_iters, ob_active,
                   ob_streaming, ob_current_setpoint, wk_pc, wk_setpoint, wk_sent,
                   ob_start_ret, wk_sent_pending, wk_after_clear>>
    /\ UNCHANGED <<failsafeVars, shutdownVars, outsideBridge>>

\* OffboardSession.start: _request_offboard_mode returns; on True the session
\* becomes active and start returns True, otherwise _stop_streaming clears the
\* run flag.
OffboardStartAck ==
    /\ br_pc = "await_ack"
    /\ \E outcome \in RequestOutcomes :
          /\ now' = now + request_duration_ms(outcome)
          /\ ob_request' = outcome
          /\ IF request_offboard_mode(outcome)
             THEN /\ ob_active' = TRUE
                  /\ ob_start_ret' = "True"
                  /\ br_pc' = "receive_zmq"
                  /\ UNCHANGED ob_streaming
             ELSE /\ stop_streaming
                  /\ br_pc' = "start_join"
                  /\ UNCHANGED <<ob_active, ob_start_ret>>
    /\ UNCHANGED <<tracking_active, br_current_setpoint, br_iters,
                   ob_current_setpoint, wk_pc, wk_setpoint, wk_sent, wk_sent_pending,
                   wk_after_clear>>
    /\ UNCHANGED <<failsafeVars, shutdownVars, outsideBridge>>

\* _stop_streaming of a failed start: the join of the worker thread (one
\* iteration of the worker is far shorter than the join timeout), then start
\* returns False.
OffboardStartJoin ==
    /\ br_pc = "start_join"
    /\ wk_pc = "done"
    /\ wk_pc' = "none"
    /\ ob_start_ret' = "False"
    /\ br_pc' = "receive_zmq"
    /\ UNCHANGED <<now, tracking_active, br_current_setpoint, br_iters, ob_active,
                   ob_streaming, ob_current_setpoint, wk_setpoint, wk_sent,
                   ob_request, wk_sent_pending, wk_after_clear>>
    /\ UNCHANGED <<failsafeVars, shutdownVars, outsideBridge>>

\* OffboardSession.stop after the neutral setpoint was stored: the sleep, then
\* _stop_streaming clears the run flag.
OffboardStopStreaming ==
    /\ br_pc \in {"offboard_stop", "final_stop"}
    /\ now' = now + stop_sleep_ms
    /\ stop_streaming
    /\ br_pc' = IF br_pc = "offboard_stop" THEN "stop_join" ELSE "final_join"
    /\ UNCHANGED <<tracking_active, br_current_setpoint, br_iters, ob_active,
                   ob_current_setpoint, wk_pc, wk_setpoint, wk_sent,
                   startHistory>>
    /\ UNCHANGED <<failsafeVars, shutdownVars, outsideBridge>>

\* OffboardSession.stop: the join of the worker thread, then _active = False.
OffboardStopJoin ==
    /\ br_pc \in {"stop_join", "final_join"}
    /\ wk_pc \in {"done", "none"}
    /\ wk_pc' = "none"
    /\ ob_active' = FALSE
    /\ br_pc' = IF br_pc = "stop_join" THEN "receive_zmq" ELSE "exited"
    /\ UNCHANGED <<now, tracking_active, br_current_setpoint, br_iters,
                   ob_streaming, ob_current_setpoint, wk_setpoint, wk_sent,
                   startHistory>>
    /\ UNCHANGED <<failsafeVars, shutdownVars, outsideBridge>>

\* _run_loop: _receive_zmq keeps the last setpoint message, if any arrived.
ReceiveZmq ==
    /\ br_pc = "receive_zmq"
    /\ \/ UNCHANGED br_current_setpoint
       \/ \E sp \in ControlSetpoints :
              br_current_setpoint' = [sp |-> sp, timestamp |-> now]
    /\ br_pc' = "update_failsafe"
    /\ UNCHANGED <<now, tracking_active, br_iters, ob_active, ob_streaming,
                   ob_current_setpoint, wk_pc, wk_setpoint, wk_sent,
                   startHistory>>
    /\ UNCHANGED <<failsafeVars, shutdownVars, outsideBridge>>

\* _run_loop: _update_failsafe
UpdateFailsafe ==
    /\ br_pc = "update_failsafe"
    /\ \E is_connected \in BOOLEAN :
           FailsafeManager_update(br_current_setpoint.timestamp > now - setpoint_fresh_ms,
                                  is_connected, tracking_active, now)
    /\ br_pc' = "update_offboard"
    /\ UNCHANGED <<now, fs_calls, tracking_active, br_current_setpoint, br_iters,
                   ob_active, ob_streaming, ob_current_setpoint,
                   wk_pc, wk_setpoint, wk_sent,
                   startHistory>>
    /\ UNCHANGED <<shutdownVars, outsideBridge>>

\* _run_loop: the offboard setpoint update, then the sleep to the next iteration.
UpdateOffboard ==
    /\ br_pc = "update_offboard"
    /\ ob_current_setpoint' =
           IF ~ob_active THEN ob_current_setpoint
           ELSE IF should_command_neutral THEN Setpoint_neutral
           ELSE br_current_setpoint.sp
    /\ \E dt \in BridgeSteps : now' = now + dt
    /\ br_iters' = br_iters + 1
    /\ br_pc' = "receive_mavlink"
    /\ UNCHANGED <<tracking_active, br_current_setpoint, ob_active, ob_streaming,
                   wk_pc, wk_setpoint, wk_sent,
                   startHistory>>
    /\ UNCHANGED <<failsafeVars, shutdownVars, outsideBridge>>

\* _streaming_loop: the loop test, while self._streaming.
streaming_loop_continues_Forever == TRUE
streaming_loop_continues == ob_streaming

\* _streaming_loop: the loop test and the read of the shared setpoint under
\* _setpoint_lock.
WorkerRead ==
    /\ wk_pc = "loop"
    /\ IF streaming_loop_continues
       THEN wk_setpoint' = ob_current_setpoint /\ wk_pc' = "send"
       ELSE wk_pc' = "done" /\ UNCHANGED wk_setpoint
    /\ UNCHANGED <<now, br_pc, tracking_active, br_current_setpoint, br_iters,
                   ob_active, ob_streaming, ob_current_setpoint, wk_sent,
                   startHistory>>
    /\ UNCHANGED <<failsafeVars, shutdownVars, outsideBridge>>

\* _streaming_loop: send_attitude_target of the local setpoint.
WorkerSend ==
    /\ wk_pc = "send"
    /\ wk_sent' = [some |-> TRUE, setpoint |-> wk_setpoint,
                   fs_state |-> fs_state, active |-> ob_active,
                   stopping |-> OffboardStopping]
    /\ wk_after_clear' = IF ob_streaming THEN 0
                         ELSE IF wk_after_clear >= MaxSendsCounted THEN MaxSendsCounted
                         ELSE wk_after_clear + 1
    /\ wk_sent_pending' = (wk_sent_pending \/ ob_request = "pending")
    /\ wk_pc' = "loop"
    /\ UNCHANGED <<now, br_pc, tracking_active, br_current_setpoint, br_iters,
                   ob_active, ob_streaming, ob_current_setpoint, wk_setpoint,
                   ob_request, ob_start_ret>>
    /\ UNCHANGED <<failsafeVars, shutdownVars, outsideBridge>>

\* MavlinkBridge.start: _run_loop finds _running false and returns; the finally
\* clause calls stop(), which stops the session if it is still active.
LoopExit ==
    /\ br_pc = "receive_mavlink"
    /\ ~br_running
    /\ IF ob_active
       THEN ob_current_setpoint' = Setpoint_neutral /\ br_pc' = "final_stop"
       ELSE br_pc' = "exited" /\ UNCHANGED ob_current_setpoint
    /\ UNCHANGED <<now, tracking_active, br_current_setpoint, br_iters, ob_active,
                   ob_streaming, wk_pc, wk_setpoint, wk_sent, startHistory>>
    /\ UNCHANGED <<failsafeVars, shutdownVars, outsideBridge>>

\* run_all_components: node.stop() from the main thread while the bridge thread
\* runs. MavlinkBridge.stop clears _running and, if the session is active,
\* OffboardSession.stop stores the neutral setpoint.
ShutdownBegin ==
    /\ sd_pc = "idle"
    /\ br_running' = FALSE
    /\ IF ob_active
       THEN ob_current_setpoint' = Setpoint_neutral /\ sd_pc' = "offboard_stop"
       ELSE sd_pc' = "done" /\ UNCHANGED ob_current_setpoint
    /\ UNCHANGED <<now, br_pc, tracking_active, br_current_setpoint, br_iters, ob_active,
                   ob_streaming, wk_pc, wk_setpoint, wk_sent, startHistory>>
    /\ UNCHANGED <<failsafeVars, outsideBridge>>

\* OffboardSession.stop in the main thread: the sleep, then _stop_streaming
\* clears the run flag.
ShutdownStopStreaming ==
    /\ sd_pc = "offboard_stop"
    /\ now' = now + stop_sleep_ms
    /\ stop_streaming
    /\ sd_pc' = "stop_join"
    /\ UNCHANGED <<br_pc, tracking_active, br_current_setpoint, br_iters, ob_active,
                   ob_current_setpoint, wk_pc, wk_setpoint, wk_sent, startHistory,
                   br_running>>
    /\ UNCHANGED <<failsafeVars, outsideBridge>>

\* OffboardSession.stop in the main thread: the join of the worker thread,
\* then _active = False.
ShutdownStopJoin ==
    /\ sd_pc = "stop_join"
    /\ wk_pc \in {"done", "none"}
    /\ wk_pc' = "none"
    /\ ob_active' = FALSE
    /\ sd_pc' = "done"
    /\ UNCHANGED <<now, br_pc, tracking_active, br_current_setpoint, br_iters,
                   ob_streaming, ob_current_setpoint, wk_setpoint, wk_sent, startHistory,
                   br_running>>
    /\ UNCHANGED <<failsafeVars, outsideBridge>>

\* MavlinkBridge.__init__ and OffboardSession.__init__
InitBridge ==
    /\ br_pc = "receive_mavlink"
    /\ tracking_active = FALSE
    /\ br_current_setpoint = [sp |-> Setpoint_neutral, timestamp |-> 0]
    /\ br_iters = 0
    /\ ob_active = FALSE
    /\ ob_streaming = FALSE
    /\ ob_current_setpoint = Setpoint_neutral
    /\ wk_pc = "none"
    /\ wk_setpoint = Setpoint_neutral
    /\ wk_sent = [some |-> FALSE, setpoint |-> Setpoint_neutral,
                  fs_state |-> "NOMINAL", active |-> FALSE, stopping |-> FALSE]
    /\ br_running = TRUE
    /\ sd_pc = "idle"
    /\ ob_request = "none"
    /\ ob_start_ret = "none"
    /\ wk_sent_pending = FALSE
    /\ wk_after_clear = 0

NextBridge ==
    \/ ReceiveMavlink
    \/ OffboardStartRequest
    \/ OffboardStartAck
    \/ OffboardStartJoin
    \/ OffboardStopStreaming
    \/ OffboardStopJoin
    \/ ReceiveZmq
    \/ UpdateFailsafe
    \/ UpdateOffboard
    \/ WorkerRead
    \/ WorkerSend

\* The last step of a main-loop iteration, for at most MaxShutdownLoops iterations.
UpdateOffboardBeforeShutdown ==
    /\ br_iters < MaxShutdownLoops
    /\ UpdateOffboard

\* The bridge with the shutdown of run_all_components.
NextShutdown ==
    \/ ReceiveMavlink
    \/ OffboardStartRequest
    \/ OffboardStartAck
    \/ OffboardStartJoin
    \/ OffboardStopStreaming
    \/ OffboardStopJoin
    \/ ReceiveZmq
    \/ UpdateFailsafe
    \/ UpdateOffboardBeforeShutdown
    \/ WorkerRead
    \/ WorkerSend
    \/ LoopExit
    \/ ShutdownBegin
    \/ ShutdownStopStreaming
    \/ ShutdownStopJoin

\* ================================================ targeting/targeting_node
\* One iteration of TargetingNode._run_loop is three steps: _process_commands
\* (at most one queued command), _process_tracks, and _compute_and_publish
\* followed by the sleep to the next iteration.

UserCommand(cmd_type, track_id, pixel) ==
    [cmd_type |-> cmd_type, track_id |-> track_id, pixel_u |-> pixel[1], pixel_v |-> pixel[2]]

\* Commands arriving on qgc_cmds ("NONE": the queue is empty).
TgCommands ==
    {UserCommand(t, 0, <<0, 0>>) :
         t \in {"NONE", "START_TRACKING", "STOP_TRACKING", "CLEAR_LOCK"}}
    \cup {UserCommand("SELECT_TARGET_ID", id, <<0, 0>>) : id \in {0, 1}}
    \cup {UserCommand("SELECT_TARGET_PIXEL", 0, <<22, 10>>)}
\* Track lists arriving on tracks.
Track0 == Track(0, BoundingBox(100, 100, 140, 140))
TgTrackLists == {<<>>, <<Track1>>, <<Track1, Track2>>, <<Track0, Track1>>}
\* Duration of one iteration, ms.
TgSteps == {100, 500, 2000}

\* clear_lock as called from the command handlers, with its record.
clear_lock_call ==
    /\ clear_lock
    /\ lk_op' = "clear_lock"
    /\ lk_pre' = LockFieldsNow
    /\ UNCHANGED <<lk_arg, lk_ok, lk_ret>>

\* TargetingNode._handle_user_command
handle_user_command(cmd) ==
    IF cmd.cmd_type = "START_TRACKING"
    THEN tracking_enabled' = TRUE /\ UNCHANGED lockVars
    ELSE IF cmd.cmd_type = "STOP_TRACKING"
    THEN tracking_enabled' = FALSE /\ clear_lock_call /\ UNCHANGED lk_calls
    ELSE IF cmd.cmd_type = "SELECT_TARGET_ID"
    THEN /\ UNCHANGED <<tracking_enabled, lk_calls>>
         /\ IF cmd.track_id # 0 /\ current_tracks.some
            THEN select_by_id(cmd.track_id, current_tracks.v, now)
            ELSE UNCHANGED <<lockFields, lk_op, lk_arg, lk_ok, lk_ret, lk_pre>>
    ELSE IF cmd.cmd_type = "SELECT_TARGET_PIXEL"
    THEN /\ UNCHANGED <<tracking_enabled, lk_calls>>
         /\ IF current_tracks.some
            THEN select_by_pixel(cmd.pixel_u, cmd.pixel_v, current_tracks.v, now)
            ELSE UNCHANGED <<lockFields, lk_op, lk_arg, lk_ok, lk_ret, lk_pre>>
    ELSE IF cmd.cmd_type = "CLEAR_LOCK"
    THEN clear_lock_call /\ UNCHANGED <<tracking_enabled, lk_calls>>
    ELSE UNCHANGED <<tracking_enabled, lockVars>>

\* _run_loop: _process_commands
TgProcessCommands ==
    /\ tg_pc = "commands"
    /\ tg_iters < MaxTgLoops
    /\ \E cmd \in TgCommands :
           /\ handle_user_command(cmd)
           /\ tg_op' = cmd.cmd_type
           /\ tg_cmd_id' = cmd.track_id
    /\ tg_pc' = "tracks"
    /\ UNCHANGED <<now, current_tracks, tg_iters, tg_last_rx, tg_errors>>
    /\ UNCHANGED outsideTargeting

\* _run_loop: _process_tracks keeps the last track list received, if any.
TgProcessTracks ==
    /\ tg_pc = "tracks"
    /\ \/ UNCHANGED <<current_tracks, tg_last_rx>>
       \/ \E tracks \in TgTrackLists : current_tracks' = Some(tracks) /\ tg_last_rx' = now
    /\ tg_pc' = "compute"
    /\ tg_op' = "tracks"
    /\ UNCHANGED <<now, tracking_enabled, tg_iters, lockVars, tg_cmd_id, tg_errors>>
    /\ UNCHANGED outsideTargeting

\* common/types.py: Errors (the fields map reads).
Errors(yaw_error, pitch_error, range_error, track_valid, depth_valid, lock_valid) ==
    [yaw_error |-> yaw_error, pitch_error |-> pitch_error, range_error |-> range_error,
     track_valid |-> track_valid, depth_valid |-> depth_valid, lock_valid |-> lock_valid]

\* targeting/errors.py; angles are in milliradians, ranges and depths in 0.1 m.
\* math.atan2(num, den) for den > 0, in milliradians, by the approximation
\* atan(x) = x / (1 + 0.28 x^2) for |x| <= 1 and pi/2 - x / (x^2 + 0.28) above.
atan2_mrad(num, den) ==
    LET n == Abs(num)
        a == IF n <= den
             THEN (1000 * n * den) \div (den * den + (28 * n * n) \div 100)
             ELSE 1571 - (1000 * n * den) \div (n * n + (28 * den * den) \div 100)
    IN IF num < 0 THEN -a ELSE a

\* BoundingBox.center
bbox_center(bbox) == <<(bbox.x1 + bbox.x2) \div 2, (bbox.y1 + bbox.y2) \div 2>>

\* math3d.pixel_to_angles with the camera intrinsics
pixel_to_angles(u, v) ==
    <<atan2_mrad(u - intrinsics_cx, intrinsics_fx), -atan2_mrad(v - intrinsics_cy, intrinsics_fy)>>

\* ErrorComputer.compute
ErrorComputer_compute(track, depth_m, lock_valid) ==
    IF ~lock_valid \/ ~track.some
    THEN Errors(0, 0, 0, FALSE, FALSE, lock_valid)
    ELSE LET c == bbox_center(track.v.bbox)
             angles == pixel_to_angles(c[1], c[2])
         IN IF depth_m.some
            THEN Errors(angles[1], angles[2], depth_m.v - desired_range_m, TRUE,
                        min_range_m <= depth_m.v /\ depth_m.v <= max_range_m, lock_valid)
            ELSE Errors(angles[1], angles[2], 0, TRUE, FALSE, lock_valid)

\* common/types.py: LockState.is_valid (and a validity that looks at the id only).
is_valid_IdOnly(lock_state) == lock_state.locked_track_id.some
is_valid(lock_state) == lock_state.status = "LOCKED" /\ lock_state.locked_track_id.some

\* LockManager.get_locked_track for the lock id id.
get_locked_track(id, tracks) ==
    IF ~id.some THEN None
    ELSE IF find_track(tracks, id.v) > 0 THEN Some(tracks[find_track(tracks, id.v)])
    ELSE None

\* Depths the OAK bridge returns for the locked box, 0.1 m (None: no bridge or
\* no reading).
TgDepths == {None, Some(100), Some(501)}

\* _compute_and_publish after the lock update: the Errors published, from the
\* LockState that update returned, the lock id it left, the tracks held and
\* the depth read for a locked track.
compute_and_publish(lock_state, id, tracks, depth_m) ==
    LET locked_track == get_locked_track(id, tracks) IN
    ErrorComputer_compute(locked_track,
                          IF locked_track.some THEN depth_m ELSE None,
                          is_valid(lock_state))

\* _run_loop: _compute_and_publish when tracking is enabled and a track list
\* was received, then the sleep to the next iteration.
TgCompute ==
    /\ tg_pc = "compute"
    /\ IF tracking_enabled /\ current_tracks.some
       THEN /\ LockManager_update(current_tracks.v, now) /\ UNCHANGED lk_calls
            /\ \E depth_m \in TgDepths :
                   tg_errors' = Some(compute_and_publish(lk_ret', locked_track_id',
                                                         current_tracks.v, depth_m))
       ELSE UNCHANGED lockVars /\ tg_errors' = None
    /\ \E dt \in TgSteps : now' = now + dt
    /\ tg_iters' = tg_iters + 1
    /\ tg_pc' = "commands"
    /\ tg_op' = "tick"
    /\ UNCHANGED <<tracking_enabled, current_tracks, tg_last_rx, tg_cmd_id>>
    /\ UNCHANGED outsideTargeting

\* TargetingNode.__init__
InitTargeting ==
    /\ tracking_enabled = FALSE
    /\ current_tracks = None
    /\ tg_pc = "commands"
    /\ tg_iters = 0
    /\ tg_op = "init"
    /\ tg_last_rx = 0
    /\ tg_cmd_id = 0
    /\ tg_errors = None

NextTargeting == TgProcessCommands \/ TgProcessTracks \/ TgCompute

\* ================================================= control/control_mapper
\* Errors offered to map: inside the deadband, at it, below / at / beyond the
\* values that reach the limits (yaw 200, pitch 100, range 200).
YawErrors == {-201, -200, -5, 6, 201}
PitchErrors == {-101, 3, 100, 101}
RangeErrors == {-40, 4, 200, 202}

\* ControlMapper._apply_deadband
apply_deadband(value, threshold) == IF Abs(value) < threshold THEN 0 ELSE value

\* ControlMapper.map: the validity gate (and the gate testing the lock only).
errors_valid_LockOnly(errors) == errors.lock_valid
errors_valid(errors) == errors.lock_valid /\ errors.track_valid

\* ControlMapper.map before the limits: roll and pitch in centi-degrees,
\* thrust in hundredths.
map_raw(errors, enabled) ==
    LET yaw_error == apply_deadband(errors.yaw_error, yaw_deadband_rad)
        pitch_error == apply_deadband(errors.pitch_error, pitch_deadband_rad)
        range_error == IF errors.depth_valid
                       THEN apply_deadband(errors.range_error, range_deadband_m)
                       ELSE 0
    IN [roll_deg |-> (yaw_error * Deg(yaw_to_roll)) \div 300,
        pitch_deg |-> (pitch_error * Deg(pitch_to_pitch)) \div 200,
        thrust |-> IF enabled /\ errors.depth_valid
                   THEN (range_error * range_to_thrust) \div 10
                   ELSE 0]

\* ControlMapper.map
ControlMapper_map(errors, enabled) ==
    IF ~errors_valid(errors) THEN Setpoint_neutral
    ELSE LET raw == map_raw(errors, enabled) IN
         Setpoint(clamp(raw.roll_deg, Deg(roll_min_deg), Deg(roll_max_deg)),
                  clamp(raw.pitch_deg, Deg(pitch_min_deg), Deg(pitch_max_deg)),
                  clamp(raw.thrust, thrust_min, thrust_max),
                  0)

\* ControlMapper.__init__ with the default ControlConfig.
InitMapper ==
    /\ thrust_enabled = FALSE
    /\ cm_op = "init"
    /\ cm_errors = Errors(0, 0, 0, FALSE, FALSE, FALSE)
    /\ cm_raw = [roll_deg |-> 0, pitch_deg |-> 0, thrust |-> 0]
    /\ cm_ret = Setpoint_neutral

MapStep ==
    /\ \E y \in YawErrors, p \in PitchErrors, r \in RangeErrors,
          tv \in BOOLEAN, dv \in BOOLEAN, lv \in BOOLEAN, enabled \in BOOLEAN :
           LET errors == Errors(y, p, r, tv, dv, lv) IN
           /\ thrust_enabled' = enabled
           /\ cm_errors' = errors
           /\ cm_raw' = map_raw(errors, enabled)
           /\ cm_ret' = ControlMapper_map(errors, enabled)
    /\ cm_op' = "map"
    /\ UNCHANGED outsideMapper

NextMapper == MapStep

\* ===================================================== control/control_node
\* The loop thread (node.start) and the main thread of run_all_components,
\* which calls node.stop(); each definition below is one atomic step of one of
\* them.
CnThreads == {"loop", "main"}

\* Errors messages arriving on the errors topic.
CnErrors == { Errors(201, 101, 0, TRUE, TRUE, TRUE),
              Errors(201, 101, 0, FALSE, FALSE, FALSE) }
\* Duration of one iteration of the loop, ms.
CnSteps == {100, 300}

\* ZmqPublisher.publish on the setpoints topic: the send fails (and the error
\* is logged) once the socket is closed.
publish_setpoint(setpoint, origin) ==
    IF cn_closed THEN UNCHANGED cn_pub
    ELSE cn_pub' = [some |-> TRUE, setpoint |-> setpoint, origin |-> origin]

\* _run_loop: the test of _running; start() calls stop() when the loop ends.
CnLoopTest ==
    /\ cn_pc["loop"] = "test"
    /\ cn_pc' = [cn_pc EXCEPT !["loop"] = IF cn_running THEN "tick" ELSE "stop"]
    /\ UNCHANGED <<now, cn_running, cn_last_errors, cn_last_rx, cn_setpoint, cn_pub, cn_closed>>
    /\ UNCHANGED <<cn_ticks, cn_gate, safetyVars, outsideControl>>

\* _run_loop: _receive_errors keeps the last Errors message, if any arrived,
\* and _compute_setpoint maps it and applies the safety manager.
CnTick ==
    /\ cn_pc["loop"] = "tick"
    /\ cn_ticks < MaxTicks
    /\ cn_ticks' = cn_ticks + 1
    /\ \E rx \in {None} \cup {Some(e) : e \in CnErrors} :
          LET last == IF rx.some THEN rx ELSE cn_last_errors IN
          /\ cn_last_errors' = last
          /\ cn_last_rx' = IF rx.some THEN now ELSE cn_last_rx
          /\ IF ~last.some
             THEN /\ cn_setpoint' = Setpoint_neutral
                  /\ cn_gate' = "none"
                  /\ UNCHANGED <<now, safetyVars>>
             ELSE /\ apply(ControlMapper_map(last.v, thrust_enabled),
                           last.v.lock_valid, last.v.track_valid, TRUE, 0)
                  /\ cn_setpoint' = sm_ret'
                  /\ cn_gate' = IF sm_op' = "apply_pass" THEN "pass" ELSE "failsafe"
    /\ cn_pc' = [cn_pc EXCEPT !["loop"] = "publish"]
    /\ UNCHANGED <<cn_running, cn_pub, cn_closed>>
    /\ UNCHANGED outsideControl

\* _run_loop: publish of the computed setpoint, then the sleep to the next
\* iteration.
CnPublish ==
    /\ cn_pc["loop"] = "publish"
    /\ publish_setpoint(cn_setpoint, "loop")
    /\ \E dt \in CnSteps : now' = now + dt
    /\ cn_pc' = [cn_pc EXCEPT !["loop"] = "test"]
    /\ UNCHANGED <<cn_running, cn_last_errors, cn_last_rx, cn_setpoint, cn_closed>>
    /\ UNCHANGED <<cn_ticks, cn_gate, safetyVars, outsideControl>>

\* start(): KeyboardInterrupt ends _run_loop in the loop thread (the node run
\* standalone), and the finally clause calls stop().
CnInterrupt ==
    /\ cn_pc["loop"] \in {"test", "tick", "publish"}
    /\ cn_pc["main"] = "idle"
    /\ cn_pc' = [cn_pc EXCEPT !["loop"] = "stop", !["main"] = "absent"]
    /\ UNCHANGED <<now, cn_running, cn_last_errors, cn_last_rx, cn_setpoint, cn_pub, cn_closed>>
    /\ UNCHANGED <<cn_ticks, cn_gate, safetyVars, outsideControl>>

\* run_all_components: the main thread reaches node.stop().
CnShutdown ==
    /\ cn_pc["main"] = "idle"
    /\ cn_pc' = [cn_pc EXCEPT !["main"] = "stop"]
    /\ UNCHANGED <<now, cn_running, cn_last_errors, cn_last_rx, cn_setpoint, cn_pub, cn_closed>>
    /\ UNCHANGED <<cn_ticks, cn_gate, safetyVars, outsideControl>>

\* ControlNode.stop: _running = False and SafetyManager.force_neutral
CnStopBegin(th) ==
    /\ cn_pc[th] = "stop"
    /\ cn_running' = FALSE
    /\ force_neutral(0)
    /\ cn_pc' = [cn_pc EXCEPT ![th] = "stop_publish"]
    /\ UNCHANGED <<cn_last_errors, cn_last_rx, cn_setpoint, cn_pub, cn_closed, cn_ticks, cn_gate>>
    /\ UNCHANGED outsideControl

\* ControlNode.stop: publish of the neutral setpoint
CnStopPublish(th) ==
    /\ cn_pc[th] = "stop_publish"
    /\ publish_setpoint(Setpoint_neutral, "stop")
    /\ cn_pc' = [cn_pc EXCEPT ![th] = "stop_close"]
    /\ UNCHANGED <<now, cn_running, cn_last_errors, cn_last_rx, cn_setpoint, cn_closed>>
    /\ UNCHANGED <<cn_ticks, cn_gate, safetyVars, outsideControl>>

\* ControlNode.stop: the publisher and the subscriber are closed
CnStopClose(th) ==
    /\ cn_pc[th] = "stop_close"
    /\ cn_closed' = TRUE
    /\ cn_pc' = [cn_pc EXCEPT ![th] = "done"]
    /\ UNCHANGED <<now, cn_running, cn_last_errors, cn_last_rx, cn_setpoint, cn_pub>>
    /\ UNCHANGED <<cn_ticks, cn_gate, safetyVars, outsideControl>>

\* ControlNode.__init__ and start() (_running = True)
InitControl ==
    /\ cn_pc = [th \in CnThreads |-> IF th = "loop" THEN "test" ELSE "idle"]
    /\ cn_running = TRUE
    /\ cn_last_errors = None
    /\ cn_last_rx = 0
    /\ cn_setpoint = Setpoint_neutral
    /\ cn_pub = [some |-> FALSE, setpoint |-> Setpoint_neutral, origin |-> "none"]
    /\ cn_closed = FALSE
    /\ cn_ticks = 0
    /\ cn_gate = "none"

NextControl ==
    \/ CnLoopTest
    \/ CnTick
    \/ CnPublish
    \/ CnInterrupt
    \/ CnShutdown
    \/ \E th \in CnThreads : CnStopBegin(th)
    \/ \E th \in CnThreads : CnStopPublish(th)
    \/ \E th \in CnThreads : CnStopClose(th)

\* ====================================================== common/bus/zmq_bus
\* Python values as they pass through asdict, json.dumps and json.loads: a
\* dataclass instance, a dict, a list, a tuple, an Enum member, a number, a
\* boolean, a string, None. fields is a sequence of <<name, value>> pairs.
PyNum(n) == [k |-> "num", n |-> n]
PyBool(b) == [k |-> "bool", b |-> b]
PyStr(str) == [k |-> "str", str |-> str]
PyEnum(cls, name) == [k |-> "enum", cls |-> cls, name |-> name]
PyNone == [k |-> "none"]
PyObj(type, fields) == [k |-> "obj", type |-> type, fields |-> fields]
PyDict(fields) == [k |-> "dict", fields |-> fields]
PyList(items) == [k |-> "list", items |-> items]
PyTuple(items) == [k |-> "tuple", items |-> items]
PyOpt(opt) == IF opt.some THEN PyNum(opt.v) ELSE PyNone

\* dataclasses.asdict: dataclass instances become dicts, recursively through
\* dicts, lists and tuples; every other value is kept (an Enum member stays
\* an Enum member).
RECURSIVE asdict(_)
asdict(v) ==
    IF v.k \in {"obj", "dict"}
    THEN PyDict([i \in 1..Len(v.fields) |-> <<v.fields[i][1], asdict(v.fields[i][2])>>])
    ELSE IF v.k \in {"list", "tuple"}
    THEN [v EXCEPT !.items = [i \in 1..Len(v.items) |-> asdict(v.items[i])]]
    ELSE v

\* json.dumps raises TypeError for a value that holds an Enum member or a
\* dataclass instance.
RECURSIVE json_serializable(_)
json_serializable(v) ==
    IF v.k \in {"enum", "obj"} THEN FALSE
    ELSE IF v.k = "dict"
    THEN \A i \in 1..Len(v.fields) : json_serializable(v.fields[i][2])
    ELSE IF v.k \in {"list", "tuple"}
    THEN \A i \in 1..Len(v.items) : json_serializable(v.items[i])
    ELSE TRUE

\* json.loads(json.dumps(v)) for a serializable v: tuples come back as lists.
RECURSIVE json_decoded(_)
json_decoded(v) ==
    IF v.k = "dict"
    THEN PyDict([i \in 1..Len(v.fields) |-> <<v.fields[i][1], json_decoded(v.fields[i][2])>>])
    ELSE IF v.k \in {"list", "tuple"}
    THEN PyList([i \in 1..Len(v.items) |-> json_decoded(v.items[i])])
    ELSE v

HasKey(fields, key) == \E i \in 1..Len(fields) : fields[i][1] = key
ValueOf(fields, key) == fields[CHOOSE i \in 1..Len(fields) : fields[i][1] = key][2]
WithoutKey(fields, key) == SelectSeq(fields, LAMBDA f : f[1] # key)

\* ZmqSerializer.serialize: the dict handed to json.dumps.
serialize_data(obj) ==
    IF obj.k = "obj"
    THEN PyDict(Append(asdict(obj).fields, <<"__type__", PyStr(obj.type)>>))
    ELSE IF obj.k = "dict" THEN obj
    ELSE PyDict(<<<<"value", obj>>>>)

\* ZmqSerializer.deserialize of the decoded payload
deserialize(obj, type_registry) ==
    IF obj.k = "dict" /\ HasKey(obj.fields, "__type__") /\ type_registry # {}
    THEN LET type_name == ValueOf(obj.fields, "__type__").str
             rest == WithoutKey(obj.fields, "__type__")
         IN IF type_name \in type_registry THEN PyObj(type_name, rest) ELSE PyDict(rest)
    ELSE obj

\* common/types.py: the messages of the bus topics.
PySetpoint(r, p, th) ==
    PyObj("Setpoint", << <<"roll_deg", PyNum(r)>>, <<"pitch_deg", PyNum(p)>>,
                         <<"thrust", PyNum(th)>>, <<"yaw_deg", PyNum(0)>>,
                         <<"timestamp", PyNum(now)>> >>)
PyErrors(e) ==
    PyObj("Errors", << <<"yaw_error", PyNum(e.yaw_error)>>, <<"pitch_error", PyNum(e.pitch_error)>>,
                       <<"range_error", PyNum(e.range_error)>>,
                       <<"track_valid", PyBool(e.track_valid)>>,
                       <<"depth_valid", PyBool(e.depth_valid)>>,
                       <<"lock_valid", PyBool(e.lock_valid)>>,
                       <<"timestamp", PyNum(now)>> >>)
PyBatteryState(b1, b2) ==
    PyObj("BatteryState", << <<"bat1_active", PyBool(b1)>>, <<"bat2_active", PyBool(b2)>>,
                             <<"timestamp", PyNum(now)>> >>)
PyUserCommand(cmd_type, track_id, pixel, depth) ==
    PyObj("UserCommand", << <<"cmd_type", PyEnum("CommandType", cmd_type)>>,
                            <<"track_id", PyOpt(track_id)>>,
                            <<"pixel_u", PyOpt(pixel[1])>>, <<"pixel_v", PyOpt(pixel[2])>>,
                            <<"min_depth", PyOpt(depth[1])>>, <<"max_depth", PyOpt(depth[2])>>,
                            <<"timestamp", PyNum(now)>> >>)
PyLockState(st, id) ==
    PyObj("LockState", << <<"status", PyEnum("LockStatus", st)>>,
                          <<"locked_track_id", PyOpt(id)>>,
                          <<"lock_timestamp", PyOpt(IF id.some THEN Some(now) ELSE None)>>,
                          <<"frames_since_lock", PyNum(0)>> >>)
PyBoundingBox(b) ==
    PyObj("BoundingBox", << <<"x1", PyNum(b.x1)>>, <<"y1", PyNum(b.y1)>>,
                            <<"x2", PyNum(b.x2)>>, <<"y2", PyNum(b.y2)>> >>)
PyTrack(t, velocity) ==
    PyObj("Track", << <<"track_id", PyNum(t.track_id)>>, <<"bbox", PyBoundingBox(t.bbox)>>,
                      <<"class_id", PyNum(0)>>, <<"label", PyStr("target")>>,
                      <<"confidence", PyNum(1)>>, <<"timestamp", PyNum(now)>>,
                      <<"velocity", velocity>> >>)
PyTrackList(tracks) ==
    PyObj("TrackList", << <<"tracks", PyList(tracks)>>, <<"frame_id", PyNum(1)>>,
                          <<"timestamp", PyNum(now)>> >>)

\* The message types, and the messages offered to publish.
BusTypes == {"TrackList", "LockState", "Errors", "Setpoint", "BatteryState", "UserCommand"}
NoPair == <<None, None>>
BusMessages ==
    {PySetpoint(r, p, th) : r \in {-20, 0, 20}, p \in {-10, 0, 10}, th \in {0, 1}}
    \cup {PyErrors(Errors(y, 0, 0, tv, dv, lv)) :
              y \in {0, 201}, tv \in BOOLEAN, dv \in BOOLEAN, lv \in BOOLEAN}
    \cup {PyBatteryState(b1, b2) : b1 \in BOOLEAN, b2 \in BOOLEAN}
    \cup {PyUserCommand(t, None, NoPair, NoPair) :
              t \in {"START_TRACKING", "STOP_TRACKING", "CLEAR_LOCK", "REQUEST_TRACK_LIST"}}
    \cup {PyUserCommand("SELECT_TARGET_ID", Some(id), NoPair, NoPair) : id \in {1, 2}}
    \cup {PyUserCommand("SELECT_TARGET_PIXEL", None, <<Some(22), Some(10)>>, NoPair),
          PyUserCommand("SET_DEPTH_RANGE", None, NoPair, <<Some(3), Some(50)>>)}
    \cup {PyLockState("UNLOCKED", None)}
    \cup {PyLockState(st, Some(id)) : st \in {"LOCKING", "LOCKED", "LOST"}, id \in {1, 2}}
    \cup {PyTrackList(<<>>),
          PyTrackList(<<PyTrack(Track1, PyNone)>>),
          PyTrackList(<<PyTrack(Track1, PyNone), PyTrack(Track2, PyTuple(<<PyNum(1), PyNum(0)>>))>>)}
\* Type registries of a subscriber: none (every subscriber of the nodes), or
\* all message types.
BusRegistries == {{}, BusTypes}

\* ZmqPublisher.publish followed by ZmqSubscriber.receive of a subscriber of
\* the topic: a TypeError of json.dumps is caught and logged by publish, and
\* nothing is sent.
BusPublish ==
    /\ \E msg \in BusMessages, type_registry \in BusRegistries :
          LET data == serialize_data(msg) IN
          /\ bus_msg' = msg
          /\ IF json_serializable(data)
             THEN /\ bus_wire' = [sent |-> TRUE, payload |-> json_decoded(data)]
                  /\ bus_rx' = [some |-> TRUE, type_registry |-> type_registry,
                                msg |-> deserialize(json_decoded(data), type_registry)]
             ELSE /\ bus_wire' = [sent |-> FALSE, payload |-> PyNone]
                  /\ bus_rx' = [some |-> FALSE, type_registry |-> type_registry,
                                msg |-> PyNone]
    /\ bus_op' = "publish"
    /\ UNCHANGED <<commandVars, outsideBus>>

\* Commands the UserCommandParser produces.
QgcCommands ==
    {PyUserCommand(t, None, NoPair, NoPair) :
         t \in {"START_TRACKING", "STOP_TRACKING", "CLEAR_LOCK"}}
    \cup {PyUserCommand("SELECT_TARGET_ID", Some(id), NoPair, NoPair) : id \in {1, 2}}
    \cup {PyUserCommand("SET_DEPTH_RANGE", None, NoPair, <<Some(5), Some(20)>>)}

\* MavlinkBridge._handle_command: the republication of the parsed command on
\* qgc_cmds (the local handling of START_TRACKING and STOP_TRACKING is
\* ReceiveMavlink). publish sends nothing when json.dumps raises.
BridgePublishCommand ==
    /\ qgc_parsed < MaxCommands
    /\ \E cmd \in QgcCommands :
          LET data == serialize_data(cmd) IN
          /\ qgc_cmd' = cmd
          /\ qgc_queue' = IF json_serializable(data)
                          THEN Append(qgc_queue, json_decoded(data))
                          ELSE qgc_queue
    /\ qgc_parsed' = qgc_parsed + 1
    /\ qgc_op' = "publish"
    /\ UNCHANGED <<qgc_received, qgc_applied, busFields, outsideBus>>

\* TargetingNode._process_commands: receive until the queue is empty; each
\* message comes back from deserialize without a type registry and is
\* dispatched on its cmd_type.
TgDrainCommands ==
    /\ qgc_received' = qgc_received + Len(qgc_queue)
    /\ qgc_applied' =
           IF qgc_queue = <<>> THEN qgc_applied
           ELSE LET msg == deserialize(qgc_queue[Len(qgc_queue)], {})
                IN IF msg.k = "dict" /\ HasKey(msg.fields, "cmd_type")
                   THEN ValueOf(msg.fields, "cmd_type") ELSE PyNone
    /\ qgc_queue' = <<>>
    /\ qgc_op' = "process"
    /\ UNCHANGED <<qgc_parsed, qgc_cmd, busFields, outsideBus>>

\* ZmqPublisher.__init__ / ZmqSubscriber.__init__
InitBus ==
    /\ bus_op = "init"
    /\ bus_msg = PyNone
    /\ bus_wire = [sent |-> FALSE, payload |-> PyNone]
    /\ bus_rx = [some |-> FALSE, type_registry |-> {}, msg |-> PyNone]
    /\ qgc_op = "init"
    /\ qgc_queue = <<>>
    /\ qgc_parsed = 0
    /\ qgc_cmd = PyNone
    /\ qgc_received = 0
    /\ qgc_applied = PyNone

NextBus == BusPublish \/ BridgePublishCommand \/ TgDrainCommands

\* ======================================================== mavlink/telemetry
\* MAV_TYPE of a HEARTBEAT: the three flight-controller types, and a ground
\* station.
HeartbeatTypes == {"FIXED_WING", "QUADROTOR", "GENERIC", "GCS"}
FcTypes == {"FIXED_WING", "QUADROTOR", "GENERIC"}
\* Time between two operations, ms.
TmSteps == {500, 1000, 2500}

\* TelemetryReceiver.check_connection
check_connection_Inclusive(current_time) == last_heartbeat_time.some /\ (current_time - last_heartbeat_time.v) <= heartbeat_timeout_ms
check_connection(current_time) ==
    IF ~last_heartbeat_time.some THEN FALSE
    ELSE (current_time - last_heartbeat_time.v) < heartbeat_timeout_ms

\* TelemetryReceiver.is_connected
is_connected(current_time) == connected /\ check_connection(current_time)

\* process_message of a HEARTBEAT: _process_heartbeat keeps only the
\* heartbeats of a flight controller.
TmHeartbeat ==
    /\ tm_calls < MaxTmCalls
    /\ \E type \in HeartbeatTypes :
          IF type \in FcTypes
          THEN /\ last_heartbeat_time' = Some(now)
               /\ connected' = TRUE
               /\ tm_hb' = Some(now)
          ELSE UNCHANGED <<last_heartbeat_time, connected, tm_hb>>
    /\ tm_op' = "heartbeat"
    /\ tm_calls' = tm_calls + 1
    /\ UNCHANGED <<now, tm_ret, tm_lapsed, outsideTelemetry>>

\* A read of the is_connected property.
TmIsConnected ==
    /\ tm_calls < MaxTmCalls
    /\ tm_ret' = is_connected(now)
    /\ tm_lapsed' = (tm_lapsed \/ (tm_hb.some /\ ~is_connected(now)))
    /\ tm_op' = "is_connected"
    /\ tm_calls' = tm_calls + 1
    /\ UNCHANGED <<now, last_heartbeat_time, connected, tm_hb, outsideTelemetry>>

\* Time passing between operations.
TmWait ==
    /\ tm_calls < MaxTmCalls
    /\ \E dt \in TmSteps : now' = now + dt
    /\ tm_op' = "wait"
    /\ tm_calls' = tm_calls + 1
    /\ UNCHANGED <<last_heartbeat_time, connected, tm_ret, tm_hb, tm_lapsed, outsideTelemetry>>

\* TelemetryReceiver.__init__
InitTelemetry ==
    /\ last_heartbeat_time = None
    /\ connected = FALSE
    /\ tm_op = "init"
    /\ tm_ret = FALSE
    /\ tm_hb = None
    /\ tm_lapsed = FALSE
    /\ tm_calls = 0

NextTelemetry == TmHeartbeat \/ TmIsConnected \/ TmWait

\* ========================================================= targeting/errors
\* Angles are in milliradians, ranges and depths in 0.1 m, pixels in pixels.

\* SET_DEPTH_RANGE commands: min_depth and max_depth, each optional.
DepthCommands ==
    {[min_depth |-> Some(50), max_depth |-> Some(200)],
     [min_depth |-> None, max_depth |-> Some(200)],
     [min_depth |-> Some(10), max_depth |-> None]}
\* Arguments of compute: the locked track, the depth and the lock validity.
EcTracks == {None, Some(Track1), Some(Track3)}
EcDepths == {None, Some(20), Some(30), Some(100), Some(300), Some(500), Some(501)}

\* TargetingNode._handle_user_command, SET_DEPTH_RANGE: the node's own
\* _min_depth and _max_depth are assigned.
TgSetDepthRange ==
    /\ depth_sets < MaxDepthSets
    /\ \E cmd \in DepthCommands :
          /\ min_depth' = IF cmd.min_depth.some THEN cmd.min_depth.v ELSE min_depth
          /\ max_depth' = IF cmd.max_depth.some THEN cmd.max_depth.v ELSE max_depth
    /\ depth_sets' = depth_sets + 1
    /\ ec_op' = "set_depth_range"
    /\ UNCHANGED <<ec_args, ec_ret, outsideErrors>>

\* _compute_and_publish: the call of ErrorComputer.compute. The computer
\* reads the range from its ErrorConfig, not from the node.
EcCompute ==
    /\ \E track \in EcTracks, depth_m \in EcDepths, lock_valid \in BOOLEAN :
          /\ ec_args' = [track |-> track, depth_m |-> depth_m, lock_valid |-> lock_valid]
          /\ ec_ret' = ErrorComputer_compute(track, depth_m, lock_valid)
    /\ ec_op' = "compute"
    /\ UNCHANGED <<min_depth, max_depth, depth_sets, outsideErrors>>

\* TargetingNode.__init__
InitErrors ==
    /\ min_depth = min_range_m
    /\ max_depth = max_range_m
    /\ depth_sets = 0
    /\ ec_op = "init"
    /\ ec_args = [track |-> None, depth_m |-> None, lock_valid |-> FALSE]
    /\ ec_ret = Errors(0, 0, 0, FALSE, FALSE, FALSE)

NextErrors == TgSetDepthRange \/ EcCompute

\* ================================================= mavlink/custom_telemetry
\* Time between two calls of send_track_count, ms.
CtSteps == {0, 50, 200, 250}

\* CustomTelemetrySender.send_track_count: the NAMED_VALUE_INT TRK_COUNT is
\* sent on every call; _last_tracks_send and _tracks_send_interval are not
\* read or written.
SendTrackCount ==
    /\ ct_calls < MaxCtCalls
    /\ \E dt \in CtSteps, tracks \in TgTrackLists :
          /\ now' = now + dt
          /\ ct_value' = Len(tracks)
          /\ ct_emitted' = Some(now + dt)
          /\ ct_gap' = IF ct_emitted.some THEN Some(now + dt - ct_emitted.v) ELSE None
    /\ ct_op' = "send_track_count"
    /\ ct_calls' = ct_calls + 1
    /\ UNCHANGED <<last_tracks_send, outsideCustomTelemetry>>

\* CustomTelemetrySender.__init__
InitCustomTelemetry ==
    /\ last_tracks_send = 0
    /\ ct_op = "init"
    /\ ct_value = 0
    /\ ct_emitted = None
    /\ ct_gap = None
    /\ ct_calls = 0

NextCustomTelemetry == SendTrackCount

\* ================================================= mavlink/offboard_session
\* OffboardSession as its two callers use it: the bridge loop thread calls
\* start() and stop() for the commands it receives, the thread that shuts the
\* bridge down calls stop(). Every worker thread ever started is kept, so that
\* one that outlives its join is still seen.
OsCallers == {"bridge", "main"}
OsWorkers == 1..MaxOsCalls

\* A worker thread that has been started and has not returned.
worker_alive(w) == os_workers[w] \in {"loop", "send"}
\* The number of the next thread start() creates.
next_worker == 1 + Cardinality({w \in OsWorkers : os_workers[w] # "none"})

\* Thread.join(timeout=1.0) on worker w returns: the worker has returned, or
\* it is still inside send_attitude_target when the timeout expires.
join_returns(w) == os_workers[w] = "done" \/ os_workers[w] = "send"

\* OffboardSession.start up to the pre-stream sleep: the _active test and
\* _start_streaming.
OsStart ==
    /\ os_pc["bridge"] = "idle"
    /\ os_calls < MaxOsCalls
    /\ os_calls' = os_calls + 1
    /\ IF os_active
       THEN UNCHANGED <<os_streaming, os_stream_thread, os_workers, os_pc>>
       ELSE /\ os_pc' = [os_pc EXCEPT !["bridge"] = "request"]
            /\ IF os_streaming
               THEN UNCHANGED <<os_streaming, os_stream_thread, os_workers>>
               ELSE /\ os_streaming' = TRUE
                    /\ os_stream_thread' = next_worker
                    /\ os_workers' = [os_workers EXCEPT ![next_worker] = "loop"]
    /\ UNCHANGED <<os_active, os_joining, outsideSession>>

\* start: _request_offboard_mode accepted (_active = True) or refused
\* (_stop_streaming clears the flag).
OsStartRequest ==
    /\ os_pc["bridge"] = "request"
    /\ \E accepted \in BOOLEAN :
          IF accepted
          THEN /\ os_active' = TRUE
               /\ os_pc' = [os_pc EXCEPT !["bridge"] = "idle"]
               /\ UNCHANGED os_streaming
          ELSE /\ os_streaming' = FALSE
               /\ os_pc' = [os_pc EXCEPT !["bridge"] = "start_read"]
               /\ UNCHANGED os_active
    /\ UNCHANGED <<os_stream_thread, os_workers, os_joining, os_calls, outsideSession>>

\* OffboardSession.stop by either caller: the _active test, then the sleep.
OsStop ==
    /\ \E t \in OsCallers :
          /\ os_pc[t] = "idle"
          /\ os_pc' = [os_pc EXCEPT ![t] = IF os_active THEN "stop_sleep" ELSE "idle"]
    /\ os_calls < MaxOsCalls
    /\ os_calls' = os_calls + 1
    /\ UNCHANGED <<os_active, os_streaming, os_stream_thread, os_workers, os_joining,
                   outsideSession>>

\* stop: _stop_streaming clears the flag.
OsStopStreaming ==
    /\ \E t \in OsCallers :
          /\ os_pc[t] = "stop_sleep"
          /\ os_pc' = [os_pc EXCEPT ![t] = "stop_read"]
    /\ os_streaming' = FALSE
    /\ UNCHANGED <<os_active, os_stream_thread, os_workers, os_joining, os_calls,
                   outsideSession>>

\* _stop_streaming: "if self._stream_thread:" picks the thread to join.
OsReadThread ==
    /\ \E t \in OsCallers :
          /\ os_pc[t] \in {"start_read", "stop_read"}
          /\ os_joining' = [os_joining EXCEPT ![t] = os_stream_thread]
          /\ os_pc' = [os_pc EXCEPT ![t] = IF os_pc[t] = "start_read"
                                           THEN "start_join" ELSE "stop_join"]
    /\ UNCHANGED <<os_active, os_streaming, os_stream_thread, os_workers, os_calls,
                   outsideSession>>

\* _stop_streaming: the join returns and _stream_thread is set to None; stop
\* then clears _active.
OsJoin ==
    /\ \E t \in OsCallers :
          /\ os_pc[t] \in {"start_join", "stop_join"}
          /\ IF os_joining[t] = 0
             THEN UNCHANGED os_stream_thread
             ELSE join_returns(os_joining[t]) /\ os_stream_thread' = 0
          /\ os_active' = IF os_pc[t] = "stop_join" THEN FALSE ELSE os_active
          /\ os_joining' = [os_joining EXCEPT ![t] = 0]
          /\ os_pc' = [os_pc EXCEPT ![t] = "idle"]
    /\ UNCHANGED <<os_streaming, os_workers, os_calls, outsideSession>>

\* _streaming_loop: the test of "while self._streaming".
OsWorkerTest ==
    /\ \E w \in OsWorkers :
          /\ os_workers[w] = "loop"
          /\ os_workers' = [os_workers EXCEPT ![w] = IF os_streaming THEN "send" ELSE "done"]
    /\ UNCHANGED <<os_active, os_streaming, os_stream_thread, os_pc, os_joining, os_calls,
                   outsideSession>>

\* _streaming_loop: send_attitude_target returns, then the sleep to the next
\* period.
OsWorkerSend ==
    /\ \E w \in OsWorkers :
          /\ os_workers[w] = "send"
          /\ os_workers' = [os_workers EXCEPT ![w] = "loop"]
    /\ UNCHANGED <<os_active, os_streaming, os_stream_thread, os_pc, os_joining, os_calls,
                   outsideSession>>

\* OffboardSession.__init__
InitSession ==
    /\ os_active = FALSE
    /\ os_streaming = FALSE
    /\ os_stream_thread = 0
    /\ os_workers = [w \in OsWorkers |-> "none"]
    /\ os_pc = [t \in OsCallers |-> "idle"]
    /\ os_joining = [t \in OsCallers |-> 0]
    /\ os_calls = 0

NextSession ==
    \/ OsStart
    \/ OsStartRequest
    \/ OsStop
    \/ OsStopStreaming
    \/ OsReadThread
    \/ OsJoin
    \/ OsWorkerTest
    \/ OsWorkerSend

\* ================================================ mavlink/setpoints_attitude
\* Quaternion components, sines and cosines are fixed-point numbers in units
\* of 1/10000; a product is rounded down after every multiplication.
QScale == 100 * 100

\* Angles offered to the builder, degrees.
QAngles == {-180, -90, -20, 0, 10, 20, 90}

\* math.sin(deg_to_rad(deg) / 2) and math.cos(deg_to_rad(deg) / 2), from the
\* values at 0, 5, 10, 45 and 90 degrees.
sin_half(deg) ==
    LET h == Abs(deg)
        v == IF h = 0 THEN 0 ELSE IF h = 10 THEN 872 ELSE IF h = 20 THEN 1736
             ELSE IF h = 90 THEN 7071 ELSE 10000
    IN IF deg < 0 THEN -v ELSE v
cos_half(deg) ==
    LET h == Abs(deg)
    IN IF h = 0 THEN 10000 ELSE IF h = 10 THEN 9962 ELSE IF h = 20 THEN 9848
       ELSE IF h = 90 THEN 7071 ELSE 0

\* a * b * c
mul3(a, b, c) == (((a * b) \div QScale) * c) \div QScale

\* math.sqrt of a sum of squares, rounded down, by bisection.
RECURSIVE sqrt_between(_, _, _)
sqrt_between(sq, lo, hi) ==
    IF hi - lo <= 1 THEN lo
    ELSE LET mid == (lo + hi) \div 2
         IN IF mid * mid <= sq THEN sqrt_between(sq, mid, hi) ELSE sqrt_between(sq, lo, mid)

Quaternion(w, x, y, z) == [w |-> w, x |-> x, y |-> y, z |-> z]

\* Quaternion.normalize
normalize(q) ==
    LET norm == sqrt_between(q.w * q.w + q.x * q.x + q.y * q.y + q.z * q.z, 0, 3 * QScale)
    IN IF norm = 0 THEN Quaternion(QScale, 0, 0, 0)
       ELSE Quaternion((q.w * QScale) \div norm, (q.x * QScale) \div norm,
                       (q.y * QScale) \div norm, (q.z * QScale) \div norm)

\* math3d.euler_to_quaternion of angles given in degrees
euler_to_quaternion_SmallAngle(roll, pitch, yaw) == Quaternion(QScale, (roll * 8727) \div 100, (pitch * 8727) \div 100, (yaw * 8727) \div 100)
euler_to_quaternion(roll, pitch, yaw) ==
    LET cr == cos_half(roll)
        sr == sin_half(roll)
        cp == cos_half(pitch)
        sp == sin_half(pitch)
        cy == cos_half(yaw)
        sy == sin_half(yaw)
    IN normalize(Quaternion(mul3(cr, cp, cy) + mul3(sr, sp, sy),
                            mul3(sr, cp, cy) - mul3(cr, sp, sy),
                            mul3(cr, sp, cy) + mul3(sr, cp, sy),
                            mul3(cr, cp, sy) - mul3(sr, sp, cy)))

\* setpoints_attitude.build_attitude_target_quaternion
build_attitude_target_quaternion(roll_deg, pitch_deg, yaw_deg) ==
    euler_to_quaternion(roll_deg, pitch_deg, yaw_deg)

\* A call of build_attitude_target_quaternion.
BuildQuaternion ==
    /\ \E roll_deg \in QAngles, pitch_deg \in QAngles, yaw_deg \in QAngles :
          /\ q_args' = <<roll_deg, pitch_deg, yaw_deg>>
          /\ q_ret' = build_attitude_target_quaternion(roll_deg, pitch_deg, yaw_deg)
    /\ q_op' = "build"
    /\ UNCHANGED outsideQuaternion

InitQuaternion ==
    /\ q_op = "init"
    /\ q_args = <<0, 0, 0>>
    /\ q_ret = Quaternion(QScale, 0, 0, 0)

NextQuaternion == BuildQuaternion

\* =========================================================== specifications
Init == now = 0 /\ InitSafety /\ InitFailsafe /\ InitLock /\ InitBridge /\ InitTargeting /\ InitMapper /\ InitControl /\ InitBus /\ InitTelemetry /\ InitErrors /\ InitCustomTelemetry /\ InitQuaternion /\ InitSession

SpecSafety == Init /\ [][NextSafety]_vars

SpecFailsafe == Init /\ [][NextFailsafe]_vars

SpecLock == Init /\ [][NextLock]_vars

SpecBridge == Init /\ [][NextBridge]_vars

SpecTargeting == Init /\ [][NextTargeting]_vars

SpecMapper == Init /\ [][NextMapper]_vars

SpecControl == Init /\ [][NextControl]_vars

SpecBus == Init /\ [][NextBus]_vars

SpecTelemetry == Init /\ [][NextTelemetry]_vars

SpecErrors == Init /\ [][NextErrors]_vars

SpecCustomTelemetry == Init /\ [][NextCustomTelemetry]_vars

SpecSession == Init /\ [][NextSession]_vars
SpecQuaternion == Init /\ [][NextQuaternion]_vars

SpecShutdown == Init /\ [][NextShutdown]_vars

\* The streaming worker is a thread of its own: it keeps being scheduled.
SpecShutdownFair == SpecShutdown /\ WF_vars(WorkerRead) /\ WF_vars(WorkerSend)

\* =================================================================== claims
ApplyOps == {"apply_pass", "apply_failsafe"}

\* C1: every setpoint returned by apply, on the gate-pass path and on the
\* failsafe path, has |roll_deg| <= roll_limit_deg and |pitch_deg| <= pitch_limit_deg.
C1_OutputWithinLimits ==
    sm_op \in ApplyOps =>
        /\ Abs(sm_ret.roll_deg) <= Deg(roll_limit_deg)
        /\ Abs(sm_ret.pitch_deg) <= Deg(pitch_limit_deg)

\* C2: with bench_mode true, every setpoint returned by apply (gate passed or
\* blocked) and by force_neutral has thrust exactly 0.
C2_BenchThrustZero ==
    (bench_mode /\ sm_op \in ApplyOps \cup {"force_neutral"}) => sm_ret.thrust = 0

\* A gate-passing apply in bench mode was given a positive thrust and returned 0.
C2_Witness ==
    /\ bench_mode
    /\ sm_op = "apply_pass"
    /\ sm_arg.thrust > 0
    /\ sm_ret.thrust = 0

\* C3: two consecutive setpoints returned by apply, Delta apart, differ by at
\* most roll_slew_rate_deg_s * Delta in roll and pitch_slew_rate_deg_s * Delta
\* in pitch, on every path.
C3_SlewBounded ==
    (sm_hist[1].some /\ sm_hist[2].some) =>
        LET delta_ms == sm_hist[2].t - sm_hist[1].t IN
        /\ Abs(sm_hist[2].roll_deg - sm_hist[1].roll_deg) * 1000
               <= Deg(roll_slew_rate_deg_s) * delta_ms
        /\ Abs(sm_hist[2].pitch_deg - sm_hist[1].pitch_deg) * 1000
               <= Deg(pitch_slew_rate_deg_s) * delta_ms

\* An apply given lock_valid false or track_fresh false took the failsafe path
\* and left failsafe_active set.
C4_BlockedWhenInvalid ==
    (sm_op \in ApplyOps /\ (~sm_arg.lock_valid \/ ~sm_arg.track_fresh)) =>
        (sm_op = "apply_failsafe" /\ failsafe_active)

\* C4: apply takes the failsafe path and sets failsafe_active whenever
\* lock_valid or track_fresh is false, and an apply with lock_valid,
\* track_fresh and telemetry_fresh all true made while failsafe_active is
\* latched clears it and returns a filtered setpoint, however long the
\* blocked period was.
C4_GateLatch ==
    /\ []C4_BlockedWhenInvalid
    /\ [][ ( /\ failsafe_active
             /\ sm_calls' = sm_calls + 1
             /\ sm_op' \in ApplyOps
             /\ sm_arg'.lock_valid /\ sm_arg'.track_fresh /\ sm_arg'.telemetry_fresh )
           => (sm_op' = "apply_pass" /\ ~failsafe_active') ]_vars

\* C5: across update calls a FAILSAFE state is never immediately followed by
\* NOMINAL.
C5_NoFailsafeToNominal ==
    (fs_op = "update" /\ fs_pre.state = "FAILSAFE") => fs_state # "NOMINAL"

\* An update left FAILSAFE, and it went to RECOVERY.
C5_Witness ==
    /\ fs_op = "update"
    /\ fs_pre.state = "FAILSAFE"
    /\ fs_state = "RECOVERY"

\* C6: an update leaves RECOVERY for NOMINAL only when the target state has
\* been NOMINAL on every update for at least recovery_confirmation_ms (a
\* WARNING target in between restarts the confirmation).
C6_RecoveryConfirmed ==
    (fs_op = "update" /\ fs_pre.state = "RECOVERY" /\ fs_state = "NOMINAL") =>
        /\ fs_nominal_since.some
        /\ now - fs_nominal_since.v >= recovery_confirmation_ms

\* The target state as C7 words it, from the elapsed times of the last update.
C7_Desired ==
    LET dt == elapsed_ms(last_track_valid_time, now)
        dm == elapsed_ms(fs_last_telemetry_time, now)
        late(e, ms) == ~e.some \/ ~(e.v < ms)
    IN IF late(dt, track_lost_failsafe_ms) \/ late(dm, telemetry_lost_failsafe_ms)
       THEN "FAILSAFE"
       ELSE IF late(dt, track_lost_warning_ms) \/ late(dm, telemetry_lost_warning_ms)
       THEN "WARNING"
       ELSE "NOMINAL"

\* The state changes C7 lists; every other pair keeps the state.
C7_Listed(state, target) ==
    IF state = "NOMINAL" /\ target \in {"WARNING", "FAILSAFE"} THEN target
    ELSE IF state = "WARNING" /\ target \in {"NOMINAL", "FAILSAFE"} THEN target
    ELSE IF state = "FAILSAFE" /\ target \in {"NOMINAL", "WARNING"} THEN "RECOVERY"
    ELSE IF state = "RECOVERY" /\ target = "FAILSAFE" THEN "FAILSAFE"
    ELSE state

\* C7 as stated: update evaluates the target state from the two elapsed times
\* and makes exactly the listed state changes, and no other.
C7_TransitionsAsListed ==
    fs_op = "update" =>
        /\ fs_target = C7_Desired
        /\ fs_state = C7_Listed(fs_pre.state, fs_target)

\* C7 amended: the listed state changes, and RECOVERY to NOMINAL on a NOMINAL
\* target once recovery_confirmation_ms have passed since RECOVERY was
\* entered; no other state change.
C7_TransitionsWithRecoveryExit ==
    fs_op = "update" =>
        /\ fs_target = C7_Desired
        /\ fs_state =
             IF /\ fs_pre.state = "RECOVERY"
                /\ fs_target = "NOMINAL"
                /\ fs_pre.recovery_start_time.some
                /\ now - fs_pre.recovery_start_time.v >= recovery_confirmation_ms
             THEN "NOMINAL"
             ELSE C7_Listed(fs_pre.state, fs_target)

\* An update in RECOVERY with a NOMINAL target completed the recovery.
C7_Witness ==
    /\ fs_op = "update"
    /\ fs_pre.state = "RECOVERY"
    /\ fs_target = "NOMINAL"
    /\ fs_state = "NOMINAL"

\* C8: whenever the failsafe state is FAILSAFE or RECOVERY and the offboard
\* session is active, every setpoint the streaming worker sends is the neutral
\* setpoint, under every interleaving of the main loop and the worker.
C8_NeutralWhileFailsafe ==
    (wk_sent.some /\ wk_sent.active /\ wk_sent.fs_state \in {"FAILSAFE", "RECOVERY"}) =>
        wk_sent.setpoint = Setpoint_neutral

\* C9: after every update that returns status LOCKED, locked_track_id is the
\* id of a track in the list passed to that update.
C9_LockedIdInTracks ==
    (lk_op = "update" /\ lk_ret.status = "LOCKED") =>
        /\ locked_track_id.some
        /\ lk_ret.locked_track_id = locked_track_id
        /\ \E i \in 1..Len(lk_arg.tracks) :
               lk_arg.tracks[i].track_id = locked_track_id.v

\* An update returned LOCKED for a list of two tracks holding the locked id.
C9_Witness ==
    /\ lk_op = "update"
    /\ lk_ret.status = "LOCKED"
    /\ Len(lk_arg.tracks) = 2
    /\ locked_track_id.some

\* C10: in every state of the LockManager and in every LockState returned by
\* update or get_lock_state, status is UNLOCKED exactly when locked_track_id
\* is None.
C10_UnlockedIffNoId ==
    /\ (status = "UNLOCKED") <=> ~locked_track_id.some
    /\ (lk_ret.status = "UNLOCKED") <=> ~lk_ret.locked_track_id.some

\* An update gave up a lock after the reacquire timeout and returned UNLOCKED.
C10_Witness ==
    /\ lk_op = "update"
    /\ lk_pre.locked_track_id.some
    /\ lk_ret.status = "UNLOCKED"
    /\ ~locked_track_id.some
    /\ status = "UNLOCKED"

SelectOps == {"select_by_id", "select_by_pixel"}

\* C11 as stated: over update, select_by_id and select_by_pixel,
\* frames_since_lock never decreases between two consecutive observations in
\* which the status is LOCKED.
C11_FramesNeverDecrease ==
    (lk_op \in SelectOps \cup {"update"} /\ lk_pre.status = "LOCKED" /\ status = "LOCKED") =>
        frames_locked >= lk_pre.frames_locked

\* C11 amended: while a lock is held frames_since_lock never decreases across
\* update calls (an update that finds the locked id adds one, any other keeps
\* it); a successful selection starts a new lock and restarts the count at 0,
\* a failed selection leaves it alone.
C11_FramesCountPerLock ==
    /\ (lk_op = "update" /\ lk_pre.locked_track_id.some /\ locked_track_id.some) =>
           /\ frames_locked >= lk_pre.frames_locked
           /\ (status = "LOCKED") => (frames_locked = lk_pre.frames_locked + 1)
           /\ (status # "LOCKED") => (frames_locked = lk_pre.frames_locked)
    /\ (lk_op \in SelectOps /\ lk_ok) => frames_locked = 0
    /\ (lk_op \in SelectOps /\ ~lk_ok) => frames_locked = lk_pre.frames_locked

\* A second update in a row found the locked id: the count went from 1 to 2.
C11_Witness ==
    /\ lk_op = "update"
    /\ lk_pre.status = "LOCKED"
    /\ lk_pre.frames_locked = 1
    /\ status = "LOCKED"
    /\ frames_locked = 2

\* The id locked before the last update is not in the list passed to it.
LockedIdAbsent ==
    /\ lk_pre.locked_track_id.some
    /\ \A i \in 1..Len(lk_arg.tracks) :
           lk_arg.tracks[i].track_id # lk_pre.locked_track_id.v

\* C12: an update with the locked id absent, D ms after the id was last seen,
\* gives LOCKING when D < lock_timeout_ms, LOST when lock_timeout_ms <= D <
\* reacquire_timeout_ms, and clears the lock (UNLOCKED, no id) when
\* D >= reacquire_timeout_ms.
C12_AbsentStatusByAge ==
    (lk_op = "update" /\ LockedIdAbsent) =>
        LET D == now - lk_pre.last_seen_timestamp.v IN
        /\ lk_ret.status = status
        /\ (D < lock_timeout_ms) =>
               (status = "LOCKING" /\ locked_track_id = lk_pre.locked_track_id)
        /\ (lock_timeout_ms <= D /\ D < reacquire_timeout_ms) =>
               (status = "LOST" /\ locked_track_id = lk_pre.locked_track_id)
        /\ (D >= reacquire_timeout_ms) =>
               (status = "UNLOCKED" /\ ~locked_track_id.some)

\* The id was missing exactly lock_timeout_ms after it was last seen: LOST.
C12_Witness ==
    /\ lk_op = "update"
    /\ LockedIdAbsent
    /\ now - lk_pre.last_seen_timestamp.v = lock_timeout_ms
    /\ status = "LOST"

\* The id locked before the last update is in the list passed to it.
LockedIdPresent ==
    /\ lk_pre.locked_track_id.some
    /\ \E i \in 1..Len(lk_arg.tracks) :
           lk_arg.tracks[i].track_id = lk_pre.locked_track_id.v

\* C13 as stated: a lock whose id has disappeared (LOCKING or LOST) returns to
\* LOCKED in an update if and only if the id reappears before
\* reacquire_timeout_ms have elapsed since it was last seen, and then on the
\* same id.
C13_RelockIffBeforeTimeout ==
    (lk_op = "update" /\ lk_pre.status \in {"LOCKING", "LOST"}) =>
        LET D == now - lk_pre.last_seen_timestamp.v IN
        /\ (status = "LOCKED") <=> (LockedIdPresent /\ D < reacquire_timeout_ms)
        /\ (status = "LOCKED") => (locked_track_id = lk_pre.locked_track_id)

\* C13 amended: from LOCKING or LOST an update re-locks the same id exactly
\* when the id is in its track list, whatever the time since the id was last
\* seen; an update with the id absent reacquire_timeout_ms or more after it
\* was last seen clears the lock, and with no lock held an update never
\* reports LOCKED.
C13_RelockWhileHeld ==
    /\ (lk_op = "update" /\ lk_pre.status \in {"LOCKING", "LOST"}) =>
           /\ (status = "LOCKED") <=> LockedIdPresent
           /\ (status = "LOCKED") =>
                  /\ locked_track_id = lk_pre.locked_track_id
                  /\ lock_timestamp = lk_pre.lock_timestamp
                  /\ lk_ret.status = "LOCKED"
    /\ (lk_op = "update" /\ LockedIdAbsent
          /\ now - lk_pre.last_seen_timestamp.v >= reacquire_timeout_ms) =>
           (status = "UNLOCKED" /\ ~locked_track_id.some)
    /\ (lk_op = "update" /\ ~lk_pre.locked_track_id.some) =>
           (status = "UNLOCKED" /\ lk_ret.status = "UNLOCKED" /\ ~locked_track_id.some)

\* A LOST lock was re-locked by an update in which the id reappeared.
C13_Witness ==
    /\ lk_op = "update"
    /\ lk_pre.status = "LOST"
    /\ LockedIdPresent
    /\ status = "LOCKED"
    /\ locked_track_id = lk_pre.locked_track_id

\* C14: select_by_id(id, tracks) returns True and sets status LOCKED,
\* locked_track_id = id, lock_timestamp = now, last_seen = now and
\* frames_since_lock = 0 exactly when some track of tracks has that id;
\* otherwise it returns False and leaves the lock state unchanged.
C14_SelectById ==
    lk_op = "select_by_id" =>
        LET present == \E i \in 1..Len(lk_arg.tracks) :
                           lk_arg.tracks[i].track_id = lk_arg.track_id
        IN /\ lk_ok <=> present
           /\ present =>
                  /\ status = "LOCKED"
                  /\ locked_track_id = Some(lk_arg.track_id)
                  /\ lock_timestamp = Some(now)
                  /\ last_seen_timestamp = Some(now)
                  /\ frames_locked = 0
           /\ ~present => LockFieldsNow = lk_pre

\* A select_by_id for an id that is not in the list failed and kept an
\* existing lock on another id.
C14_Witness ==
    /\ lk_op = "select_by_id"
    /\ ~lk_ok
    /\ lk_pre.status = "LOCKED"
    /\ status = "LOCKED"
    /\ locked_track_id = lk_pre.locked_track_id
    /\ locked_track_id # Some(lk_arg.track_id)

\* The bbox contains the pixel (u, v).
Contains(bbox, u, v) == bbox.x1 <= u /\ u <= bbox.x2 /\ bbox.y1 <= v /\ v <= bbox.y2

\* (u, v) is within max_pixel_distance of the centre of the bbox.
WithinReach(bbox, u, v) ==
    distance_sq4(bbox, u, v) <= 4 * max_pixel_distance * max_pixel_distance

\* The lock is now on track tr, taken at the time of the call.
LockedOn(tr) ==
    /\ status = "LOCKED"
    /\ locked_track_id = Some(tr.track_id)
    /\ lock_bbox = Some(tr.bbox)
    /\ lock_timestamp = Some(now)

C16_Cleared ==
    tg_op \in {"CLEAR_LOCK", "STOP_TRACKING"} =>
        /\ status = "UNLOCKED"
        /\ locked_track_id = None
        /\ lock_timestamp = None
        /\ last_seen_timestamp = None
        /\ frames_locked = 0
        /\ (tg_op = "STOP_TRACKING") => ~tracking_enabled

\* C16: from any lock status, handling ClearLock or StopTracking in Targeting
\* resets the LockManager to UNLOCKED with locked_track_id, lock_timestamp and
\* last-seen cleared and frames_since_lock 0; StopTracking also disables
\* tracking, and the per-frame update alone never re-establishes the lock
\* (with tracking disabled it does not touch the lock record at all).
C16_ClearAndStop ==
    /\ []C16_Cleared
    /\ [][ (~locked_track_id.some /\ tg_op' = "tick") =>
               (~locked_track_id'.some /\ status' = "UNLOCKED") ]_vars
    /\ [][ (~tracking_enabled /\ tg_op' = "tick") => UNCHANGED lockFields ]_vars

\* StopTracking arrived while the lock was LOST and cleared it.
C16_Witness ==
    /\ tg_op = "STOP_TRACKING"
    /\ lk_op = "clear_lock"
    /\ lk_pre.status = "LOST"
    /\ status = "UNLOCKED"
    /\ ~tracking_enabled

\* C17: for any Errors with lock_valid false or track_valid false, whatever
\* the error values, depth_valid and thrust_enabled, map returns the neutral
\* setpoint (roll = pitch = yaw = 0, thrust = 0).
C17_NeutralWhenInvalid ==
    (cm_op = "map" /\ (~cm_errors.lock_valid \/ ~cm_errors.track_valid)) =>
        /\ cm_ret.roll_deg = 0
        /\ cm_ret.pitch_deg = 0
        /\ cm_ret.yaw_deg = 0
        /\ cm_ret.thrust = 0

\* Large errors with the lock valid, the track invalid, depth valid and thrust
\* enabled were mapped to neutral.
C17_Witness ==
    /\ cm_op = "map"
    /\ cm_errors.lock_valid /\ ~cm_errors.track_valid /\ cm_errors.depth_valid
    /\ thrust_enabled
    /\ cm_errors.yaw_error = 201 /\ cm_errors.pitch_error = 101
    /\ cm_errors.range_error = 202
    /\ cm_ret = Setpoint_neutral

\* The value a limit lets through: v inside [lo, hi], the nearer limit otherwise.
Saturated(v, lo, hi) == IF v > hi THEN hi ELSE IF v < lo THEN lo ELSE v

\* C18: for every Errors with lock and track valid, map returns roll within
\* [roll_min_deg, roll_max_deg], pitch within [pitch_min_deg, pitch_max_deg]
\* and thrust within [thrust_min, thrust_max]; a value exactly at a limit
\* passes unchanged, a value beyond it is saturated to it, and thrust is 0
\* unless thrust_enabled and depth_valid both hold.
C18_WithinLimits ==
    (cm_op = "map" /\ cm_errors.lock_valid /\ cm_errors.track_valid) =>
        /\ cm_ret.roll_deg >= Deg(roll_min_deg) /\ cm_ret.roll_deg <= Deg(roll_max_deg)
        /\ cm_ret.pitch_deg >= Deg(pitch_min_deg) /\ cm_ret.pitch_deg <= Deg(pitch_max_deg)
        /\ cm_ret.thrust >= thrust_min /\ cm_ret.thrust <= thrust_max
        /\ cm_ret.roll_deg = Saturated(cm_raw.roll_deg, Deg(roll_min_deg), Deg(roll_max_deg))
        /\ cm_ret.pitch_deg = Saturated(cm_raw.pitch_deg, Deg(pitch_min_deg), Deg(pitch_max_deg))
        /\ cm_ret.thrust = Saturated(cm_raw.thrust, thrust_min, thrust_max)
        /\ (~(thrust_enabled /\ cm_errors.depth_valid) => cm_ret.thrust = 0)

\* A valid map whose roll was below the lower limit and was saturated to it,
\* whose pitch was exactly at the upper limit and passed unchanged, and whose
\* thrust was above the upper limit and was saturated to it.
C18_Witness ==
    /\ cm_op = "map" /\ cm_errors.lock_valid /\ cm_errors.track_valid
    /\ thrust_enabled /\ cm_errors.depth_valid
    /\ cm_raw.roll_deg < Deg(roll_min_deg) /\ cm_ret.roll_deg = Deg(roll_min_deg)
    /\ cm_raw.pitch_deg = Deg(pitch_max_deg) /\ cm_ret.pitch_deg = Deg(pitch_max_deg)
    /\ cm_raw.thrust > thrust_max /\ cm_ret.thrust = thrust_max

\* The worker thread of the session is alive and its run flag is set.
WorkerStreaming == ob_streaming /\ wk_pc \in {"loop", "send"}

\* is_active is false while the mode request is pending, rejected, timed out
\* or has raised, and the worker streams from before the request is sent until
\* its outcome.
C19_InactiveUntilAccepted ==
    /\ (ob_request \in {"pending"} \cup RequestFailures) => ~ob_active
    /\ (br_pc \in {"offboard_start", "await_ack"}) => WorkerStreaming
    /\ (br_pc = "offboard_start") => ob_request = "none"

\* C19: in OffboardSession.start() the streaming worker is started before the
\* SetMode request is sent and keeps streaming while the acknowledgement is
\* awaited; the session becomes active only after an accepted acknowledgement,
\* so is_active is never true while the request is pending, rejected or timed
\* out.
C19_StreamBeforeRequest ==
    /\ []C19_InactiveUntilAccepted
    /\ [][(ob_request' = "pending" /\ ob_request # "pending") => WorkerStreaming]_vars
    /\ [][(ob_active' /\ ~ob_active) =>
              (ob_request = "pending" /\ ob_request' = "accepted")]_vars

\* The session became active on an accepted acknowledgement, the worker having
\* sent a setpoint while the request was pending.
C19_Witness ==
    /\ ob_active /\ ob_start_ret = "True" /\ ob_request = "accepted"
    /\ wk_sent_pending
    /\ WorkerStreaming

C21_NeutralAfterStop ==
    (wk_sent.some /\ wk_sent.stopping) => wk_sent.setpoint = Setpoint_neutral

\* C22: on shutdown of the Control node, the last message published on the
\* setpoints topic before the publisher socket is closed is exactly the neutral
\* setpoint, both when stop() runs after the loop has exited and when stop() is
\* called from another thread while _run_loop is still executing a tick.
C22_LastPublishedNeutral ==
    cn_closed => (cn_pub.some /\ cn_pub.setpoint = Setpoint_neutral)

\* The Control node is about to publish a setpoint computed while the last
\* Errors it retained, valid for lock and track, was received more than
\* track_timeout_ms ago.
StaleValidErrors ==
    /\ cn_pc["loop"] = "publish"
    /\ cn_last_errors.some
    /\ cn_last_errors.v.lock_valid /\ cn_last_errors.v.track_valid
    /\ now - cn_last_rx > track_timeout_ms

\* C24: if the Control node stops receiving Errors messages while the last
\* Errors it retained had lock_valid and track_valid true, then once
\* track_timeout_ms has elapsed since that last message every setpoint it
\* publishes is a failsafe setpoint (thrust 0, roll and pitch slewing to zero)
\* rather than one computed from the stale Errors.
C24_FailsafeWhenStale ==
    StaleValidErrors =>
        (cn_gate = "failsafe" /\ cn_setpoint.thrust = 0)

\* C23: in the Targeting node, if a lock is held with tracking enabled and no
\* new TrackList arrives, then as ticks continue the lock status becomes
\* Locking, then Lost once lock_timeout_ms has elapsed since the locked id was
\* last received, and Unlocked once reacquire_timeout_ms has elapsed; it does
\* not remain Locked on the last retained TrackList. (After a tick that left
\* the status Locked, last_seen_timestamp is the time of that tick.)
C23_NotLockedOnRetainedTracks ==
    (tg_op = "tick" /\ tracking_enabled /\ locked_track_id.some
        /\ last_seen_timestamp.some
        /\ last_seen_timestamp.v - tg_last_rx >= lock_timeout_ms) =>
        status # "LOCKED"

\* C25: for every message type carried on the bus topics (TrackList, LockState,
\* Errors, Setpoint, BatteryState, UserCommand), publish serialises the message
\* and sends it, and the subscriber's receive reconstructs a message of the
\* same variant with equal field values, the variant being identified by the
\* discriminator in the payload.
C25_RoundTrip ==
    (bus_op = "publish") =>
        /\ bus_wire.sent
        /\ HasKey(bus_wire.payload.fields, "__type__")
        /\ bus_rx.some
        /\ bus_rx.msg = bus_msg

\* C26: every UserCommand that Flight-Link parses is republished on qgc_cmds,
\* so that Targeting receives it on a later tick and applies it: once
\* Targeting has emptied its command queue, it has received and dispatched
\* every command parsed so far, the last one with the cmd_type that was parsed.
C26_CommandsReachTargeting ==
    (qgc_op = "process" /\ qgc_parsed > 0) =>
        /\ qgc_received = qgc_parsed
        /\ qgc_applied = PyStr(ValueOf(qgc_cmd.fields, "cmd_type").name)

\* C27: is_connected is true exactly when a flight-controller heartbeat has
\* been received and less than heartbeat_timeout_ms has elapsed since the
\* most recent one: false before any heartbeat, false once the timeout has
\* passed without one, true again on the next heartbeat.
C27_ConnectedIffRecentHeartbeat ==
    (tm_op = "is_connected") =>
        (tm_ret <=> (tm_hb.some /\ now - tm_hb.v < heartbeat_timeout_ms))

\* is_connected is true again after it had been false for a heartbeat that
\* was exactly heartbeat_timeout_ms old or older.
C27_Witness ==
    /\ tm_op = "is_connected"
    /\ tm_ret
    /\ tm_lapsed
    /\ now >= heartbeat_timeout_ms

\* C28: after Targeting has applied SetDepthRange(min, max), every Errors it
\* computes for a locked track with a depth d has depth_valid = (min <= d <= max),
\* judged against the range the node holds now.
C28_DepthValidAgainstNewRange ==
    (/\ ec_op = "compute"
     /\ depth_sets > 0
     /\ ec_args.lock_valid /\ ec_args.track.some /\ ec_args.depth_m.some) =>
        (ec_ret.depth_valid <=>
             (min_depth <= ec_args.depth_m.v /\ ec_args.depth_m.v <= max_depth))

\* C29: compute returns zero errors with track_valid, depth_valid and
\* lock_valid all false whenever its lock_valid argument is false or the
\* track is None, lock_valid = true with track = None included.
C29_InvalidInputsAllFlagsFalse ==
    (ec_op = "compute" /\ (~ec_args.lock_valid \/ ~ec_args.track.some)) =>
        ec_ret = Errors(0, 0, 0, FALSE, FALSE, FALSE)

\* A call of _stop_streaming has cleared the run flag and waits at its join.
JoinPending ==
    \/ br_pc \in {"start_join", "stop_join", "final_join"}
    \/ sd_pc = "stop_join"

\* The streaming worker thread exists and has not left its loop.
WorkerAlive == wk_pc \in {"loop", "send"}

\* The worker sent at most one setpoint with the run flag false, and whenever
\* the flag is false and no _stop_streaming is waiting at its join, the worker
\* has terminated.
C30_AtMostOneMoreSend ==
    /\ wk_after_clear <= 1
    /\ (~ob_streaming /\ ~JoinPending) => ~WorkerAlive

AllInputsFresh ==
    /\ last_track_valid_time = Some(now)
    /\ fs_last_telemetry_time = Some(now)

\* C31: with track_valid, lock_valid and telemetry_valid true, an update in
\* FAILSAFE moves to RECOVERY and records the time, and an update in RECOVERY
\* moves to NOMINAL as soon as recovery_confirmation_ms has elapsed since then
\* and stays in RECOVERY (never back in FAILSAFE) until then: with valid inputs
\* the state does not stay in FAILSAFE or RECOVERY forever.
C31_RecoveryCompletes ==
    (fs_op = "update" /\ AllInputsFresh) =>
        /\ (fs_pre.state = "FAILSAFE") =>
               (fs_state = "RECOVERY" /\ recovery_start_time = Some(now))
        /\ (fs_pre.state = "RECOVERY") =>
               /\ fs_pre.recovery_start_time.some
               /\ IF now - fs_pre.recovery_start_time.v >= recovery_confirmation_ms
                  THEN fs_state = "NOMINAL"
                  ELSE /\ fs_state = "RECOVERY"
                       /\ recovery_start_time = fs_pre.recovery_start_time

\* An update with valid inputs, exactly recovery_confirmation_ms after
\* RECOVERY was entered, returned to NOMINAL.
C31_Witness ==
    /\ fs_op = "update"
    /\ AllInputsFresh
    /\ fs_pre.state = "RECOVERY"
    /\ fs_pre.recovery_start_time.some
    /\ now - fs_pre.recovery_start_time.v = recovery_confirmation_ms
    /\ fs_state = "NOMINAL"

\* C32: TRK_COUNT is emitted at most 5 times per second: two emissions by
\* send_track_count are never less than 0.2 s apart, however often it is
\* called.
C32_TrackCountRateLimited ==
    ct_gap.some => ct_gap.v >= tracks_send_interval_ms

\* Squared norm of the last quaternion returned, in units of 1/10000^2.
NormSquared == q_ret.w * q_ret.w + q_ret.x * q_ret.x + q_ret.y * q_ret.y + q_ret.z * q_ret.z

\* C33: for every roll, pitch and yaw in degrees, the quaternion returned by
\* build_attitude_target_quaternion has a norm within 1e-3 of 1 (its square
\* within 0.998001 .. 1.002001), and the neutral setpoint encodes to (1, 0, 0, 0).
C33_UnitQuaternion ==
    (q_op = "build") =>
        /\ 99800100 <= NormSquared /\ NormSquared <= 100200100
        /\ (q_args = <<0, 0, 0>>) => (q_ret = Quaternion(QScale, 0, 0, 0))

\* A quaternion was built for roll -20, pitch 10 and yaw 90 degrees.
C33_Witness ==
    /\ q_op = "build"
    /\ q_args = <<-20, 10, 90>>
    /\ q_ret.x # 0 /\ q_ret.y # 0 /\ q_ret.z # 0

\* Indices of the tracks of the last select_by_pixel that qualify best: those
\* whose bbox contains the pixel, or else those at the minimal centre distance.
Containing(tracks, u, v) ==
    {i \in 1..Len(tracks) :
        /\ tracks[i].bbox.x1 <= u /\ u <= tracks[i].bbox.x2
        /\ tracks[i].bbox.y1 <= v /\ v <= tracks[i].bbox.y2}
Nearest(tracks, u, v) ==
    {i \in 1..Len(tracks) :
        \A j \in 1..Len(tracks) :
            distance_sq4(tracks[i].bbox, u, v) <= distance_sq4(tracks[j].bbox, u, v)}
Qualifying(tracks, u, v) ==
    IF Containing(tracks, u, v) # {} THEN Containing(tracks, u, v)
    ELSE Nearest(tracks, u, v)

\* C34: when select_by_pixel locks and several tracks qualify equally, the
\* locked track is the one with the lowest track_id, whatever the order of
\* the track list.
C34_LowestIdOnTie ==
    (lk_op = "select_by_pixel" /\ lk_ok) =>
        \A i \in Qualifying(lk_arg.tracks, lk_arg.u, lk_arg.v) :
            locked_track_id.v <= lk_arg.tracks[i].track_id

\* C35: the deadband of ControlMapper.map sets an error whose magnitude is at
\* or below the threshold to exactly 0 before the gain, and passes a strictly
\* larger one unchanged (seen on the yaw axis: roll before the limits).
C35_DeadbandInclusive ==
    (cm_op = "map" /\ errors_valid(cm_errors)) =>
        cm_raw.roll_deg =
            IF Abs(cm_errors.yaw_error) <= yaw_deadband_rad THEN 0
            ELSE (cm_errors.yaw_error * Deg(yaw_to_roll)) \div 300

\* The filter state that force_neutral leaves at time t: EMA value 0 and a
\* slew limiter at 0.
ZeroSlew(t) == [last_value |-> Some(0), last_time |-> Some(t)]
\* The output of a passing apply of sp at time t when both axes start from 0
\* at time t0.
FromZero(sp, t0, t) ==
    LET re == EMAFilter_update(Some(0), roll_ema_alpha_tenths, sp.roll_deg)
        pe == EMAFilter_update(Some(0), pitch_ema_alpha_tenths, sp.pitch_deg)
        rs == SlewRateLimiter_update(ZeroSlew(t0), roll_slew_rate_deg_s, re.v, t)
        ps == SlewRateLimiter_update(ZeroSlew(t0), pitch_slew_rate_deg_s, pe.v, t)
    IN [roll_deg |-> clamp(rs.out, -Deg(roll_limit_deg), Deg(roll_limit_deg)),
        pitch_deg |-> clamp(ps.out, -Deg(pitch_limit_deg), Deg(pitch_limit_deg))]

C36_Step ==
    /\ (sm_op' = "force_neutral" /\ sm_calls' # sm_calls) =>
           /\ sm_ret' = Setpoint_neutral
           /\ roll_ema' = Some(0) /\ pitch_ema' = Some(0)
           /\ roll_slew' = ZeroSlew(now') /\ pitch_slew' = ZeroSlew(now')
    /\ (sm_op = "force_neutral" /\ sm_op' = "apply_pass") =>
           \E sp \in RawSetpoints :
               /\ sm_ret'.roll_deg = FromZero(sp, now, now').roll_deg
               /\ sm_ret'.pitch_deg = FromZero(sp, now, now').pitch_deg

\* C36: force_neutral returns exactly the neutral setpoint, without smoothing
\* or slew limiting, and sets the EMA and slew-limiter state of both axes to 0,
\* so the next passing apply is filtered and slew-limited starting from 0.
C36_ForceNeutralResets == [][C36_Step]_vars

\* force_neutral has acted after an apply that returned a non-zero attitude.
C36_Witness ==
    /\ sm_op = "force_neutral"
    /\ sm_hist[2].some /\ sm_hist[2].roll_deg # 0 /\ sm_hist[2].pitch_deg # 0
    /\ sm_ret = Setpoint_neutral
    /\ roll_ema = Some(0) /\ roll_slew.last_value = Some(0)

\* C37: the Errors published by an iteration of the targeting loop have
\* track_valid exactly when lock_valid, depth_valid only with track_valid, and
\* lock_valid only when the lock status after that iteration's update is
\* LOCKED with the locked id in the track list held; while the status is
\* LOCKING or LOST they are all zero with every flag false.
C37_PublishedErrorsConsistent ==
    (tg_op = "tick" /\ tg_errors.some) =>
        LET e == tg_errors.v IN
        /\ e.track_valid <=> e.lock_valid
        /\ e.depth_valid => e.track_valid
        /\ e.lock_valid =>
               /\ status = "LOCKED"
               /\ locked_track_id.some
               /\ \E i \in 1..Len(current_tracks.v) :
                      current_tracks.v[i].track_id = locked_track_id.v
        /\ (status \in {"LOCKING", "LOST"}) => (e = Errors(0, 0, 0, FALSE, FALSE, FALSE))

\* An iteration published Errors with a valid depth for a track locked for at
\* least two frames.
C37_Witness ==
    /\ tg_op = "tick" /\ tg_errors.some
    /\ tg_errors.v.lock_valid /\ tg_errors.v.track_valid /\ tg_errors.v.depth_valid
    /\ tg_errors.v.yaw_error # 0
    /\ status = "LOCKED" /\ frames_locked >= 2

\* C39: a SELECT_TARGET_ID command handled while a track list is held reaches
\* the lock manager for every track id, 0 included: when a track with that id
\* is in the list the lock is LOCKED on it afterwards.
C39_SelectByIdAnyId ==
    (/\ tg_op = "SELECT_TARGET_ID"
     /\ current_tracks.some
     /\ \E i \in 1..Len(current_tracks.v) : current_tracks.v[i].track_id = tg_cmd_id) =>
        (status = "LOCKED" /\ locked_track_id = Some(tg_cmd_id))

\* C38: over every interleaving of start() and stop() calls on an
\* OffboardSession, a restart right after a stop or a failed start included, at
\* most one streaming worker thread is running.
C38_AtMostOneWorker ==
    Cardinality({w \in OsWorkers : worker_alive(w)}) <= 1

\* C40: an input of the FailsafeManager that has never been valid counts as
\* infinitely stale: an update that leaves the track time or the telemetry
\* time unset (the first update from the initial NOMINAL included) ends in
\* FAILSAFE, never in WARNING, and once should_command_neutral is true an
\* update makes it false only by completing a RECOVERY.
C40_NeverValidIsStale ==
    (fs_op = "update") =>
        /\ (~last_track_valid_time.some \/ ~fs_last_telemetry_time.some) =>
               (fs_state = "FAILSAFE" /\ should_command_neutral)
        /\ (fs_pre.state \in {"FAILSAFE", "RECOVERY"} /\ ~should_command_neutral) =>
               (fs_pre.state = "RECOVERY" /\ fs_state = "NOMINAL")

\* The first update had a valid track and lock and no telemetry: NOMINAL went
\* straight to FAILSAFE.
C40_Witness ==
    /\ fs_op = "update" /\ fs_calls = 1
    /\ fs_pre.state = "NOMINAL"
    /\ last_track_valid_time.some /\ ~fs_last_telemetry_time.some
    /\ fs_state = "FAILSAFE" /\ should_command_neutral

====
